---- MODULE Spec2Model ----
(***************************************************************************)
(* Recognition pipeline of the NVDA Vision add-on:                         *)
(*   CacheDatabase / CacheManager   (SQLite result cache, TTL + LRU)       *)
(*   VisionEngine                   (primary -> backups -> cloud fallback) *)
(*   ResultProcessor                (filter, annotate, sort, ids, status)  *)
(*   RecognitionController          (background worker, cancel flag)       *)
(*                                                                         *)
(* Time is counted in whole seconds.  The behaviours explored lie within   *)
(* one calendar day on a machine whose local time is UTC, so a stored      *)
(* timestamp is the pair <<separator, seconds>>: SQLite's                  *)
(* CURRENT_TIMESTAMP writes 'YYYY-MM-DD HH:MM:SS' (separator ' '),         *)
(* datetime.isoformat() writes 'YYYY-MM-DDTHH:MM:SS' (separator 'T'), and  *)
(* SQLite compares the two as text.                                        *)
(***************************************************************************)
EXTENDS Integers, Sequences, FiniteSets, TLC

(***************************************************************************)
(* Bounds of the exploration                                               *)
(***************************************************************************)
MaxTicks == 2
MaxPuts == 3
MaxHits == 1
MaxRequests == 2
MaxBackups == 2
MaxExpiries == 1

(***************************************************************************)
(* Program constants                                                       *)
(***************************************************************************)
SecondsPerMinute == 60
CACHE_TTL == 300
ConfidenceThreshold == 70
DefaultTtlSeconds == 300
DefaultMaxSize == 100

TickSteps == {1, 60}
TtlChoices == {30, 120}
MaxSizeChoices == {1, 2}
Hashes == {"hA", "hB"}

(***************************************************************************)
(* UI elements.  confidence is in percent.  has_extras tells whether the   *)
(* object carries the id / attributes attributes the adapters and the      *)
(* result processor use; the UIElement dataclass itself declares neither.  *)
(***************************************************************************)
UIElement(ty, tx, bb, cf, act, ex) ==
    [element_type |-> ty, text |-> tx, bbox |-> bb, confidence |-> cf,
     actionable |-> act, has_extras |-> ex, id |-> "", annotations |-> <<>>]

ElOk == UIElement("button", "OK", <<10, 10, 40, 40>>, 90, TRUE, TRUE)
ElLow == UIElement("text", "Name", <<50, 50, 90, 90>>, 50, FALSE, TRUE)
ElPlain == UIElement("link", "Help", <<10, 50, 40, 90>>, 95, TRUE, FALSE)

ElementLists == { <<>>, <<ElLow, ElOk>>, <<ElPlain>> }

\* the element list of the k-th Result that is put into the cache directly
SamplePayload(k) == IF k % 2 = 1 THEN <<ElOk>> ELSE <<ElLow, ElOk>>

(***************************************************************************)
(* UIElement.to_dict / UIElement.from_dict: the dictionary carries type,   *)
(* text, bbox, confidence and actionable; id and attributes are not part   *)
(* of it, so a parsed element comes back as a plain UIElement.             *)
(***************************************************************************)
ElementToDict(e) ==
    [type |-> e.element_type, text |-> e.text, bbox |-> e.bbox,
     confidence |-> e.confidence, actionable |-> e.actionable]

ElementFromDict(d) ==
    UIElement(d.type, d.text, d.bbox, d.confidence, d.actionable, FALSE)

MapSeq(F(_), s) == [i \in 1..Len(s) |-> F(s[i])]

(***************************************************************************)
(* RecognitionResult: __post_init__ sets expires_at = created_at +         *)
(* CACHE_TTL when it is not given.                                         *)
(***************************************************************************)
RecognitionResult(h, els, model, st, src, created) ==
    [screenshot_hash |-> h, elements |-> els, model_name |-> model,
     status |-> st, source |-> src, created_at |-> created,
     expires_at |-> created + CACHE_TTL]

ResultToDict(r) ==
    [screenshot_hash |-> r.screenshot_hash,
     elements |-> MapSeq(ElementToDict, r.elements),
     model_name |-> r.model_name, status |-> r.status, source |-> r.source,
     created_at |-> r.created_at, expires_at |-> r.expires_at]

ResultFromDict(d) ==
    [screenshot_hash |-> d.screenshot_hash,
     elements |-> MapSeq(ElementFromDict, d.elements),
     model_name |-> d.model_name, status |-> d.status, source |-> d.source,
     created_at |-> d.created_at, expires_at |-> d.expires_at]

IsExpired(r, t) == t >= r.expires_at

(***************************************************************************)
(* The fields of an element that a cached Result must preserve.            *)
(***************************************************************************)
ElementContent(e) ==
    [element_type |-> e.element_type, text |-> e.text, bbox |-> e.bbox,
     confidence |-> e.confidence, actionable |-> e.actionable]

(***************************************************************************)
(* Stored timestamps                                                       *)
(***************************************************************************)
SqlTimestamp(t) == <<0, t>>
IsoTimestamp(t) == <<1, t>>

TextLess(a, b) == a[1] < b[1] \/ (a[1] = b[1] /\ a[2] < b[2])

(***************************************************************************)
(* CacheDatabase: the three tables and the AUTOINCREMENT counters.         *)
(* PRAGMA foreign_keys is never set, so ON DELETE CASCADE is not applied.  *)
(***************************************************************************)
VARIABLES now, ticks, ttl_seconds, max_size, screenshots, recognition_results,
          ui_elements, next_screenshot_id, next_result_id, lastOp

dbVars == <<screenshots, recognition_results, ui_elements,
            next_screenshot_id, next_result_id>>
cacheVars == <<now, ticks, ttl_seconds, max_size, screenshots,
               recognition_results, ui_elements, next_screenshot_id,
               next_result_id, lastOp>>

(***************************************************************************)
(* VisionEngine configuration, and the RecognitionController with its      *)
(* worker threads, the main thread and the wx.CallAfter queue.             *)
(***************************************************************************)
VARIABLES backup_count, has_cloud, enable_cloud,
          worker, issued, current_thread, cancel_requested, current_result,
          current_element_index, main_pc, main_queue, invoked, wx_ok

\* GlobalPlugin.is_recognizing
VARIABLE is_recognizing

engineVars == <<backup_count, has_cloud, enable_cloud>>
pluginVars == <<engineVars, is_recognizing>>
ctlVars == <<worker, issued, current_thread, cancel_requested, current_result,
             current_element_index, main_pc, main_queue, invoked, wx_ok>>
vars == <<cacheVars, pluginVars, ctlVars>>

None == [none |-> TRUE]
NoOp == [op |-> "none"]

\* WHERE s.expires_at > ? with both sides written by isoformat()
NotExpired(s, t) == TextLess(IsoTimestamp(t), s.expires_at)

\* FROM recognition_results r JOIN screenshots s ... WHERE s.sha256_hash = ?
LookupRows(h) ==
    {r \in recognition_results :
        \E s \in screenshots : /\ s.id = r.screenshot_id
                               /\ s.sha256_hash = h
                               /\ NotExpired(s, now)}

\* ORDER BY r.created_at DESC LIMIT 1: created_at has one-second
\* resolution, and of the rows that tie on it SQLite returns the one it
\* reads first, the one with the lowest rowid
LookupCandidates(h) ==
    {r \in LookupRows(h) :
        \A q \in LookupRows(h) :
            /\ ~TextLess(r.created_at, q.created_at)
            /\ q.created_at = r.created_at => r.id <= q.id}

\* UPDATE recognition_results SET hit_count = hit_count + 1, last_accessed_at = ?
HitUpdate(row) ==
    [row EXCEPT !.hit_count = row.hit_count + 1,
                !.last_accessed_at = IsoTimestamp(now)]

\* ORDER BY last_accessed_at ASC, served from idx_results_accessed: rows
\* with equal text come in rowid order
LruBefore(a, b) ==
    \/ TextLess(a.last_accessed_at, b.last_accessed_at)
    \/ (a.last_accessed_at = b.last_accessed_at /\ a.id < b.id)

\* _evict_lru(keep_count): the rows that remain
EvictLru(rows, keep_count) ==
    IF Cardinality(rows) <= keep_count
    THEN rows
    ELSE LET to_delete == Cardinality(rows) - keep_count
         IN {r \in rows :
                Cardinality({q \in rows : LruBefore(q, r)}) >= to_delete}

\* if count >= max_results: self._evict_lru(max_results)
EvictBeforeInsert(rows, max_results) ==
    IF Cardinality(rows) >= max_results
    THEN EvictLru(rows, max_results)
    ELSE rows

\* expires_at = now + timedelta(minutes=ttl_minutes)
ExpiresAt(t, ttl_minutes) == IsoTimestamp(t + ttl_minutes * SecondsPerMinute)

\* INSERT OR IGNORE INTO screenshots: an existing row for the hash is kept
InsertOrIgnoreScreenshot(shots, h, ttl_minutes) ==
    IF \E s \in shots : s.sha256_hash = h
    THEN shots
    ELSE shots \cup {[id |-> next_screenshot_id, sha256_hash |-> h,
                      expires_at |-> ExpiresAt(now, ttl_minutes)]}

\* the recognition_results row of an insert; created_at and
\* last_accessed_at take the column default CURRENT_TIMESTAMP.  ttl is not
\* a column: it records the time-to-live the entry was put with
NewResultRow(sid, result_dict) ==
    [id |-> next_result_id, screenshot_id |-> sid, result_json |-> result_dict,
     created_at |-> SqlTimestamp(now), last_accessed_at |-> SqlTimestamp(now),
     hit_count |-> 0, ttl |-> ttl_seconds]

\* insert_cache
InsertCache(h, result_dict, ttl_minutes, max_results) ==
    LET kept == EvictBeforeInsert(recognition_results, max_results)
        shots == InsertOrIgnoreScreenshot(screenshots, h, ttl_minutes)
        sid == (CHOOSE s \in shots : s.sha256_hash = h).id
    IN /\ screenshots' = shots
       /\ next_screenshot_id' = IF shots = screenshots
                                THEN next_screenshot_id
                                ELSE next_screenshot_id + 1
       /\ recognition_results' = kept \cup {NewResultRow(sid, result_dict)}
       /\ next_result_id' = next_result_id + 1
       /\ ui_elements' = ui_elements \cup
              {[result_id |-> next_result_id, pos |-> i] :
                  i \in 1..Len(result_dict.elements)}

\* _cleanup_expired: DELETE FROM screenshots WHERE expires_at < ?
CleanupExpired ==
    /\ screenshots' = {s \in screenshots :
                          ~TextLess(s.expires_at, IsoTimestamp(now))}
    /\ UNCHANGED <<recognition_results, ui_elements, next_screenshot_id,
                   next_result_id>>

\* clear
ClearTables ==
    /\ screenshots' = {}
    /\ recognition_results' = {}
    /\ ui_elements' = {}
    /\ UNCHANGED <<next_screenshot_id, next_result_id>>

(***************************************************************************)
(* CacheManager                                                            *)
(***************************************************************************)
\* ttl_minutes=self.ttl_seconds // 60
TtlMinutes(secs) == secs \div SecondsPerMinute

\* What get(screenshot) can do: miss without touching a row, or pick a row,
\* record the hit on it and return the parsed Result unless is_expired
GetReturn(row) ==
    LET result == ResultFromDict(row.result_json)
    IN IF IsExpired(result, now) THEN None ELSE result

GetOutcomes(h) ==
    IF LookupCandidates(h) = {}
    THEN {[row |-> None, ret |-> None]}
    ELSE {[row |-> r, ret |-> GetReturn(r)] : r \in LookupCandidates(h)}

\* the operation last made on the store (none once the clock has moved or
\* the store was cleaned): a get remembers whether it came directly after a
\* put of the same hash, and what that put stored
GetOp(h, o) ==
    [op |-> "get", hash |-> h, ret |-> o.ret,
     put_at |-> IF o.row = None THEN 0 ELSE o.row.created_at[2],
     put_ttl |-> IF o.row = None THEN 0 ELSE o.row.ttl,
     after_put |-> lastOp.op = "put" /\ lastOp.hash = h,
     elements |-> IF lastOp.op = "put" THEN lastOp.elements ELSE <<>>]

CacheGet(h, o) ==
    /\ recognition_results' =
          IF o.row = None THEN recognition_results
          ELSE (recognition_results \ {o.row}) \cup {HitUpdate(o.row)}
    /\ UNCHANGED <<screenshots, ui_elements, next_screenshot_id,
                   next_result_id>>

PutOp(h, result) ==
    [op |-> "put", hash |-> h, elements |-> result.elements]

CachePut(h, result) ==
    /\ InsertCache(h, ResultToDict(result), TtlMinutes(ttl_seconds), max_size)

CacheCleanup == CleanupExpired

CacheClear == ClearTables

(***************************************************************************)
(* The cache store driven directly: CacheManager.put / get / cleanup /     *)
(* clear, the clock, and a restart of the add-on with another cache        *)
(* configuration on the same database file.                                *)
(***************************************************************************)
TickBy(d) ==
    /\ ticks < MaxTicks
    /\ now' = now + d
    /\ ticks' = ticks + 1
    /\ lastOp' = NoOp
    /\ UNCHANGED <<ttl_seconds, max_size, dbVars>>

\* a Result as ResultProcessor.process builds it right before the put
FreshResult(h, els) ==
    RecognitionResult(h, els, "primary", "SUCCESS", "LOCAL_GPU", now)

Put(h, els) ==
    /\ next_result_id <= MaxPuts
    /\ CachePut(h, FreshResult(h, els))
    /\ lastOp' = PutOp(h, FreshResult(h, els))
    /\ UNCHANGED <<now, ticks, ttl_seconds, max_size>>

Get(h) ==
    /\ \E o \in GetOutcomes(h) :
          /\ o.row # None => o.row.hit_count < MaxHits
          /\ CacheGet(h, o)
          /\ lastOp' = GetOp(h, o)
    /\ UNCHANGED <<now, ticks, ttl_seconds, max_size>>

Cleanup ==
    /\ CacheCleanup
    /\ lastOp' = NoOp
    /\ UNCHANGED <<now, ticks, ttl_seconds, max_size>>

Clear ==
    /\ CacheClear
    /\ lastOp' = NoOp
    /\ UNCHANGED <<now, ticks, ttl_seconds, max_size>>

\* CacheManager.__init__ -> CacheDatabase.__init__ on the existing file:
\* tables are kept, expired screenshots are cleaned up
Restart(t, m) ==
    /\ ttl_seconds' = t
    /\ max_size' = m
    /\ CleanupExpired
    /\ lastOp' = NoOp
    /\ UNCHANGED <<now, ticks>>

InitCacheVars ==
    /\ now = 0
    /\ ticks = 0
    /\ screenshots = {}
    /\ recognition_results = {}
    /\ ui_elements = {}
    /\ next_screenshot_id = 1
    /\ next_result_id = 1
    /\ lastOp = NoOp

IdleWorker ==
    [pc |-> "idle", hash |-> "", idx |-> 0, log |-> <<>>, elements |-> <<>>,
     source |-> "", result |-> None, progress |-> "none",
     superseded |-> FALSE]

IdleController ==
    /\ worker = [r \in 1..MaxRequests |-> IdleWorker]
    /\ issued = 0
    /\ current_thread = 0
    /\ cancel_requested = FALSE
    /\ current_result = None
    /\ current_element_index = 0
    /\ main_pc = "idle"
    /\ main_queue = <<>>
    /\ invoked = <<>>
    /\ is_recognizing = FALSE

InitIdleController == IdleController /\ wx_ok = TRUE

InitCache ==
    /\ InitCacheVars
    /\ ttl_seconds \in TtlChoices
    /\ max_size \in MaxSizeChoices
    /\ backup_count = 0 /\ has_cloud = FALSE /\ enable_cloud = FALSE
    /\ InitIdleController

NextCache ==
    \/ \E d \in TickSteps : TickBy(d) /\ UNCHANGED <<pluginVars, ctlVars>>
    \/ \E h \in Hashes :
          Put(h, SamplePayload(next_result_id)) /\ UNCHANGED <<pluginVars, ctlVars>>
    \/ \E h \in Hashes : Get(h) /\ UNCHANGED <<pluginVars, ctlVars>>
    \/ Cleanup /\ UNCHANGED <<pluginVars, ctlVars>>
    \/ Clear /\ UNCHANGED <<pluginVars, ctlVars>>
    \/ \E t \in TtlChoices, m \in MaxSizeChoices :
          Restart(t, m) /\ UNCHANGED <<pluginVars, ctlVars>>

SpecCache == InitCache /\ [][NextCache]_vars

(***************************************************************************)
(* VisionEngine.infer_with_fallback, one action per adapter attempt.  The  *)
(* run of request r lives in worker[r]: pc is the position in the method,  *)
(* idx the backup last tried, log what was called and how it ended.        *)
(***************************************************************************)
InferOutcomes ==
    {[kind |-> "ok", elements |-> l] : l \in ElementLists} \cup
    {[kind |-> "timeout", elements |-> <<>>],
     [kind |-> "error", elements |-> <<>>]}

ConsentAnswers == {"yes", "no", "error"}

Event(ev, who, kind, els) ==
    [ev |-> ev, who |-> who, kind |-> kind, elements |-> els]

Primary == <<"primary", 0>>
Backup(i) == <<"backup", i>>
Cloud == <<"cloud", 0>>
Nobody == <<"", 0>>

\* a variant that goes on to the next adapter when infer returned no element
ReturnedNonEmpty(o) == o.kind = "ok" /\ o.elements # <<>>

\* the try block of an adapter returns when infer returned normally
Returned(o) == o.kind = "ok"

\* a variant that tags every return as local GPU
SourceAlwaysGpu(who) == "LOCAL_GPU"

\* return elements, InferenceSource.LOCAL_GPU / LOCAL_CPU / CLOUD_API
SourceOf(who) ==
    CASE who[1] = "primary" -> "LOCAL_GPU"
      [] who[1] = "backup" -> "LOCAL_CPU"
      [] who[1] = "cloud" -> "CLOUD_API"

\* a variant that ignores the enable_cloud switch
CloudGateIgnoringSwitch == has_cloud

\* if self.enable_cloud and self.cloud_adapter
CloudGate == enable_cloud /\ has_cloud

\* _check_cloud_consent: result == wx.ID_YES, False when the dialog raises
ConsentGranted(answer) == answer = "yes"

\* return [], InferenceSource.CACHE
AllFailed(w) ==
    [w EXCEPT !.pc = "post_infer", !.elements = <<>>, !.source = "CACHE"]

\* where the method goes after the adapter at position i (0 = primary)
\* raised or timed out
AfterFailure(w, i) ==
    IF i < backup_count
    THEN [w EXCEPT !.pc = "infer_backup", !.idx = i + 1]
    ELSE IF CloudGate
         THEN [w EXCEPT !.pc = "consent"]
         ELSE AllFailed(w)

Succeeded(w, who, o) ==
    [w EXCEPT !.pc = "post_infer", !.elements = o.elements,
              !.source = SourceOf(who)]

Logged(w, e) == [w EXCEPT !.log = Append(w.log, e)]

\* what the log keeps of a call of infer: which adapter, whether it returned
\* (both except clauses log the failure and go on), what it returned
InferEvent(who, o) ==
    Event("infer", who, IF o.kind = "ok" THEN "ok" ELSE "failed", o.elements)

\* infer_with_fallback is entered: the primary adapter is tried first
EnterInfer(w) == [w EXCEPT !.pc = "infer_primary", !.idx = 0]

E_Primary(r) ==
    /\ worker[r].pc = "infer_primary"
    /\ \E o \in InferOutcomes :
          LET w == Logged(worker[r], InferEvent(Primary, o))
          IN worker' = [worker EXCEPT ![r] =
                           IF Returned(o) THEN Succeeded(w, Primary, o)
                           ELSE AfterFailure(w, 0)]
    /\ UNCHANGED <<cacheVars, pluginVars, issued, current_thread,
                   cancel_requested, current_result, current_element_index,
                   main_pc, main_queue, invoked, wx_ok>>

E_Backup(r) ==
    /\ worker[r].pc = "infer_backup"
    /\ \E o \in InferOutcomes :
          LET i == worker[r].idx
              w == Logged(worker[r], InferEvent(Backup(i), o))
          IN worker' = [worker EXCEPT ![r] =
                           IF Returned(o) THEN Succeeded(w, Backup(i), o)
                           ELSE AfterFailure(w, i)]
    /\ UNCHANGED <<cacheVars, pluginVars, issued, current_thread,
                   cancel_requested, current_result, current_element_index,
                   main_pc, main_queue, invoked, wx_ok>>

E_Consent(r) ==
    /\ worker[r].pc = "consent"
    /\ \E a \in ConsentAnswers :
          LET w == Logged(worker[r], Event("consent", Nobody, a, <<>>))
          IN worker' = [worker EXCEPT ![r] =
                           IF ConsentGranted(a)
                           THEN [w EXCEPT !.pc = "infer_cloud"]
                           ELSE AllFailed(w)]
    /\ UNCHANGED <<cacheVars, pluginVars, issued, current_thread,
                   cancel_requested, current_result, current_element_index,
                   main_pc, main_queue, invoked, wx_ok>>

E_Cloud(r) ==
    /\ worker[r].pc = "infer_cloud"
    /\ \E o \in InferOutcomes :
          LET w == Logged(worker[r], InferEvent(Cloud, o))
          IN worker' = [worker EXCEPT ![r] =
                           IF Returned(o) THEN Succeeded(w, Cloud, o)
                           ELSE AllFailed(w)]
    /\ UNCHANGED <<cacheVars, pluginVars, issued, current_thread,
                   cancel_requested, current_result, current_element_index,
                   main_pc, main_queue, invoked, wx_ok>>

(***************************************************************************)
(* The engine driven directly: infer_with_fallback is called, one run at   *)
(* a time, on an engine built with any number of backups up to MaxBackups, *)
(* with or without a cloud adapter, cloud fallback enabled or not.         *)
(***************************************************************************)
E_Start(r) ==
    /\ issued < MaxRequests
    /\ r = issued + 1
    /\ \A q \in 1..MaxRequests : worker[q].pc \in {"idle", "post_infer"}
    /\ worker' = [worker EXCEPT ![r] = EnterInfer(worker[r])]
    /\ issued' = issued + 1
    /\ UNCHANGED <<cacheVars, pluginVars, current_thread, cancel_requested,
                   current_result, current_element_index, main_pc,
                   main_queue, invoked, wx_ok>>

InitEngine ==
    /\ InitCacheVars
    /\ ttl_seconds = DefaultTtlSeconds
    /\ max_size = DefaultMaxSize
    /\ backup_count \in 0..MaxBackups
    /\ has_cloud \in BOOLEAN
    /\ enable_cloud \in BOOLEAN
    /\ InitIdleController

NextEngine ==
    \E r \in 1..MaxRequests :
        \/ E_Start(r)
        \/ E_Primary(r)
        \/ E_Backup(r)
        \/ E_Consent(r)
        \/ E_Cloud(r)

SpecEngine == InitEngine /\ [][NextEngine]_vars

(***************************************************************************)
(* ResultProcessor.process                                                 *)
(***************************************************************************)
ValidElement(e) ==
    /\ Len(e.bbox) = 4
    /\ e.bbox[1] < e.bbox[3]
    /\ e.bbox[2] < e.bbox[4]
    /\ e.confidence >= 0
    /\ e.confidence <= 100

\* a variant that drops nothing
FilterNothing(els) == els

\* _filter_invalid
FilterInvalid(els) == SelectSeq(els, ValidElement)

\* element.attributes of an object without that attribute raises
AnnotateRaises(els) ==
    \E i \in 1..Len(els) :
        els[i].confidence < ConfidenceThreshold /\ ~els[i].has_extras

AnnotateOne(e) ==
    IF e.confidence < ConfidenceThreshold
    THEN [e EXCEPT !.annotations = Append(e.annotations, "uncertain")]
    ELSE e

AnnotateUncertainty(els) == MapSeq(AnnotateOne, els)

\* sort_key: (y1, x1)
PositionBefore(a, b) ==
    \/ a.bbox[2] < b.bbox[2]
    \/ a.bbox[2] = b.bbox[2] /\ a.bbox[1] < b.bbox[1]

InsertByPosition(sorted, e) ==
    LET later == {i \in 1..Len(sorted) : PositionBefore(e, sorted[i])}
        at == IF later = {} THEN Len(sorted) + 1
              ELSE CHOOSE i \in later : \A j \in later : i <= j
    IN SubSeq(sorted, 1, at - 1) \o <<e>> \o SubSeq(sorted, at, Len(sorted))

RECURSIVE SortPrefix(_, _)
SortPrefix(els, n) ==
    IF n = 0 THEN <<>> ELSE InsertByPosition(SortPrefix(els, n - 1), els[n])

\* a variant that leaves the elements in the order of the input
KeepInputOrder(els) == els

\* sorted(elements, key=sort_key): a stable sort
SortByPosition(els) == SortPrefix(els, Len(els))

\* element.id of an object without that attribute raises
AssignIdsRaises(els) == \E i \in 1..Len(els) : ~els[i].has_extras

\* f"element_{i+1:03d}"
ElementId(i) ==
    LET digit(d) == CASE d = 0 -> "0" [] d = 1 -> "1" [] d = 2 -> "2"
                      [] d = 3 -> "3" [] d = 4 -> "4" [] d = 5 -> "5"
                      [] d = 6 -> "6" [] d = 7 -> "7" [] d = 8 -> "8"
                      [] OTHER -> "9"
    IN "element_" \o digit((i \div 100) % 10) \o digit((i \div 10) % 10)
                  \o digit(i % 10)

AssignIds(els) ==
    [i \in 1..Len(els) |->
        IF els[i].id = "" THEN [els[i] EXCEPT !.id = ElementId(i)] ELSE els[i]]

(***************************************************************************)
(* Float arithmetic.  confidence and the threshold are Python floats       *)
(* (binary64); sum() adds them one by one and "/" divides, each operation  *)
(* rounding its exact result to 53 significant bits, ties to even.  A      *)
(* float is written here as the integer float * 2^64, in digits to the     *)
(* base 2^16, least significant digit first.  Every float that occurs (a   *)
(* confidence in percent, a sum or a mean of a few of them) is 0 or lies   *)
(* between 2^-10 and 2^3, and so is a whole number of units of 2^-64.      *)
(***************************************************************************)
RECURSIVE Pow2(_)
Pow2(k) == IF k = 0 THEN 1 ELSE 2 * Pow2(k - 1)

Radix == Pow2(16)

FloatZero == <<0, 0, 0, 0, 0>>

\* the integer n, n < 2^16
FloatOfInt(n) == <<0, 0, 0, 0, n>>

RECURSIVE AddDigits(_, _, _, _)
AddDigits(a, b, i, carry) ==
    IF i > Len(a) THEN <<>>
    ELSE LET s == a[i] + b[i] + carry
         IN <<s % Radix>> \o AddDigits(a, b, i + 1, s \div Radix)

\* the exact sum
ExactSum(a, b) == AddDigits(a, b, 1, 0)

RECURSIVE MulDigits(_, _, _, _)
MulDigits(a, m, i, carry) ==
    IF i > Len(a) THEN <<>>
    ELSE LET p == a[i] * m + carry
         IN <<p % Radix>> \o MulDigits(a, m, i + 1, p \div Radix)

\* the exact product with a small integer
ExactTimes(a, m) == MulDigits(a, m, 1, 0)

\* the remainder, then the digits of the quotient, of dividing the digits
\* 1..i of a, with r carried in from the left, by the small integer d
RECURSIVE DivDigits(_, _, _, _)
DivDigits(a, d, i, r) ==
    IF i = 0 THEN <<r>>
    ELSE LET x == r * Radix + a[i]
         IN DivDigits(a, d, i - 1, x % d) \o <<x \div d>>

RECURSIVE BitsOf(_)
BitsOf(n) == IF n = 0 THEN 0 ELSE 1 + BitsOf(n \div 2)

BitLength(a) ==
    LET used == {i \in 1..Len(a) : a[i] # 0}
        top == CHOOSE i \in used : \A j \in used : j <= i
    IN IF used = {} THEN 0 ELSE 16 * (top - 1) + BitsOf(a[top])

\* a / n for a small integer n > 0, rounded to the nearest float, ties to
\* even
RoundedQuotient(a, n) ==
    LET d1 == DivDigits(a, n, Len(a), 0)
        q1 == Tail(d1)
        r1 == Head(d1)
        t == BitLength(q1) - 53
    IN IF t <= 0 THEN q1
       ELSE LET d2 == DivDigits(q1, Pow2(t), Len(q1), 0)
                q == Tail(d2)
                r2 == Head(d2)
                half == Pow2(t - 1)
                up == \/ r2 > half
                      \/ r2 = half /\ (r1 > 0 \/ q[1] % 2 = 1)
                m == IF up THEN ExactSum(q, <<1, 0, 0, 0, 0>>) ELSE q
            IN ExactTimes(m, Pow2(t))

\* a + b
FloatAdd(a, b) == RoundedQuotient(ExactSum(a, b), 1)

\* a < b
FloatLess(a, b) ==
    \E i \in 1..Len(a) :
        /\ a[i] < b[i]
        /\ \A j \in (i + 1)..Len(a) : a[j] = b[j]

\* the float nearest to c / 100: the value of the literal 0.7 for c = 70
FloatOfPercent(c) == RoundedQuotient(FloatOfInt(c), 100)

\* sum(e.confidence for e in elements): 0 + c1 + c2 + ..., left to right
RECURSIVE SumConfidence(_, _)
SumConfidence(els, n) ==
    IF n = 0 THEN FloatZero
    ELSE FloatAdd(SumConfidence(els, n - 1),
                  FloatOfPercent(els[n].confidence))

\* avg_confidence = sum(...) / len(elements)
AvgConfidence(els) == RoundedQuotient(SumConfidence(els, Len(els)), Len(els))

DetermineStatus(els) ==
    IF els = <<>> THEN "FAILURE"
    ELSE IF \A i \in 1..Len(els) : ~els[i].actionable THEN "PARTIAL_SUCCESS"
    ELSE IF FloatLess(AvgConfidence(els), FloatOfPercent(ConfidenceThreshold))
         THEN "PARTIAL_SUCCESS"
    ELSE "SUCCESS"

ProcessRaises(els) ==
    \/ AnnotateRaises(FilterInvalid(els))
    \/ AssignIdsRaises(FilterInvalid(els))

ProcessedElements(els) ==
    AssignIds(SortByPosition(AnnotateUncertainty(FilterInvalid(els))))

Process(els, h, model_name, source) ==
    RecognitionResult(h, ProcessedElements(els), model_name,
                      DetermineStatus(ProcessedElements(els)), source, now)

(***************************************************************************)
(* RecognitionController.  Request r runs in worker thread r; the main     *)
(* thread runs recognize_screen_async / cancel_recognition and, when it is *)
(* not blocked in join, the calls queued by wx.CallAfter.                  *)
(***************************************************************************)
Alive(r) == r # 0 /\ worker[r].pc \notin {"idle", "done"}

Callback(r, kind, arg) == [req |-> r, kind |-> kind, arg |-> arg, on |-> "main"]

\* a variant of the plugin whose error callback leaves the flag alone
FlagAfterSuccessOnly(cb) ==
    IF cb.kind = "success" THEN FALSE ELSE is_recognizing

\* the callbacks handed to recognize_screen_async: _on_recognition_complete
\* and _on_recognition_error begin with self.is_recognizing = False; the
\* progress message is ui.message
FlagAfterCallback(cb) ==
    IF cb.kind = "progress" THEN is_recognizing ELSE FALSE

\* _call_on_main_thread: wx.CallAfter(func, arg), or func(arg) on the calling
\* thread when wx cannot be used
CallOnMainThread(cb) ==
    IF wx_ok
    THEN /\ main_queue' = Append(main_queue, cb)
         /\ UNCHANGED <<invoked, is_recognizing>>
    ELSE /\ invoked' = Append(invoked, [cb EXCEPT !.on = "worker"])
         /\ is_recognizing' = FlagAfterCallback(cb)
         /\ UNCHANGED main_queue

NoCall == UNCHANGED <<main_queue, invoked, is_recognizing>>

\* self._current_thread = threading.Thread(...); self._current_thread.start()
StartWorker(r) ==
    /\ worker' = [worker EXCEPT ![r] = [IdleWorker EXCEPT !.pc = "capture"]]
    /\ current_thread' = r
    /\ issued' = r

\* recognize_screen_async up to the join, or to its end when no worker runs
R_Begin ==
    /\ main_pc = "idle"
    /\ issued < MaxRequests
    /\ IF Alive(current_thread)
       THEN /\ cancel_requested' = TRUE
            /\ main_pc' = "joining"
            /\ worker' = [worker EXCEPT ![current_thread].superseded = TRUE]
            /\ UNCHANGED <<current_thread, issued>>
       ELSE /\ cancel_requested' = FALSE
            /\ StartWorker(issued + 1)
            /\ UNCHANGED main_pc
    /\ UNCHANGED <<cacheVars, pluginVars, current_result,
                   current_element_index, main_queue, invoked, wx_ok>>

\* a variant of join without a timeout
JoinWithoutTimeout(r) == ~Alive(r)

\* join(timeout=1.0) can return: thread r has ended, or the second is over
JoinReturns(r) == TRUE

\* join(timeout=1.0) returns: the worker has ended, or the second is over
\* while the worker is still running
R_JoinReturn ==
    /\ main_pc = "joining"
    /\ JoinReturns(current_thread)
    /\ cancel_requested' = FALSE
    /\ worker' = [worker EXCEPT
                     ![issued + 1] = [IdleWorker EXCEPT !.pc = "capture"]]
    /\ current_thread' = issued + 1
    /\ issued' = issued + 1
    /\ main_pc' = "idle"
    /\ UNCHANGED <<cacheVars, pluginVars, current_result,
                   current_element_index, main_queue, invoked, wx_ok>>

\* cancel_recognition, but for what is remembered of the call
SetCancelFlag ==
    /\ main_pc = "idle"
    /\ Alive(current_thread)
    /\ ~cancel_requested
    /\ cancel_requested' = TRUE
    /\ UNCHANGED <<now, ticks, ttl_seconds, max_size, dbVars, pluginVars,
                   worker, issued, current_thread, current_result,
                   current_element_index, main_pc, main_queue, invoked, wx_ok>>

CancelRecognition == SetCancelFlag /\ UNCHANGED lastOp

\* the main thread runs the next call queued by wx.CallAfter; invoked keeps
\* the callbacks of the requests, a progress message is only spoken.  The
\* callbacks are those of the plugin
MainDeliver ==
    /\ main_pc = "idle"
    /\ main_queue # <<>>
    /\ invoked' = IF Head(main_queue).kind = "progress" THEN invoked
                  ELSE Append(invoked, Head(main_queue))
    /\ is_recognizing' = FlagAfterCallback(Head(main_queue))
    /\ main_queue' = Tail(main_queue)
    /\ UNCHANGED <<cacheVars, engineVars, worker, issued, current_thread,
                   cancel_requested, current_result, current_element_index,
                   main_pc, wx_ok>>

\* capture_active_window() returns a screenshot of the screen, whose content
\* stays the same between the requests, or raises
CaptureOutcomes == {"hA", "raise"}

\* a variant of the worker that never looks at the flag
CancelCheckSkipped == FALSE

\* a variant of the worker that stops at every check
CancelCheckAlways == TRUE

\* if self._cancel_requested: return
CancelCheck == cancel_requested

\* capture_active_window() and the cancellation check after it
W_Capture(r) ==
    /\ worker[r].pc = "capture"
    /\ \E c \in CaptureOutcomes :
          IF c = "raise"
          THEN /\ worker' = [worker EXCEPT ![r].pc = "done"]
               /\ CallOnMainThread(Callback(r, "error", None))
          ELSE /\ worker' = [worker EXCEPT
                                ![r].pc = IF CancelCheck THEN "done"
                                          ELSE "cache_check",
                                ![r].hash = c]
               /\ NoCall
    /\ UNCHANGED <<cacheVars, engineVars, issued, current_thread,
                   cancel_requested, current_result, current_element_index,
                   main_pc, wx_ok>>

\* a variant that goes on to inference whatever the lookup returned
AfterLookupAlwaysInfer(w, ret) == [w EXCEPT !.pc = "pre_infer"]

\* if cached_result: ... return
AfterLookup(w, ret) ==
    IF ret # None
    THEN [w EXCEPT !.pc = "done", !.result = ret]
    ELSE [w EXCEPT !.pc = "pre_infer"]

LookupEvent(o) ==
    IF o.row = None THEN Event("lookup", Nobody, "miss", <<>>)
    ELSE Event("lookup", Nobody, IF o.ret = None THEN "stale" ELSE "hit",
               o.row.result_json.elements)

\* cache_manager.get(screenshot) and the cache-hit branch
W_CacheCheck(r) ==
    /\ worker[r].pc = "cache_check"
    /\ \E o \in GetOutcomes(worker[r].hash) :
          /\ CacheGet(worker[r].hash, o)
          /\ worker' = [worker EXCEPT ![r] =
                           AfterLookup(Logged(worker[r], LookupEvent(o)), o.ret)]
          /\ IF o.ret # None
             THEN /\ current_result' = o.ret
                  /\ current_element_index' = 0
                  /\ CallOnMainThread(Callback(r, "success", o.ret))
             ELSE /\ UNCHANGED <<current_result, current_element_index>>
                  /\ NoCall
    /\ UNCHANGED <<now, ticks, ttl_seconds, max_size, lastOp, engineVars,
                   issued, current_thread, cancel_requested, main_pc, wx_ok>>

\* progress_thread.start() and the cancellation check before inference
W_PreInfer(r) ==
    /\ worker[r].pc = "pre_infer"
    /\ worker' = [worker EXCEPT ![r] =
          IF CancelCheck
          THEN [worker[r] EXCEPT !.pc = "done", !.progress = "sleeping"]
          ELSE [EnterInfer(worker[r]) EXCEPT !.progress = "sleeping"]]
    /\ UNCHANGED <<cacheVars, pluginVars, issued, current_thread,
                   cancel_requested, current_result, current_element_index,
                   main_pc, main_queue, invoked, wx_ok>>

\* progress_monitor after time.sleep(5.0): it posts the message when
\* self._current_thread is alive and wx can be used; otherwise it ends
\* without any effect, which is no step here
ProgressWake(r) ==
    /\ worker[r].progress = "sleeping"
    /\ Alive(current_thread)
    /\ wx_ok
    /\ worker' = [worker EXCEPT ![r].progress = "notified"]
    /\ main_queue' = Append(main_queue, Callback(r, "progress", None))
    /\ UNCHANGED <<cacheVars, pluginVars, issued, current_thread,
                   cancel_requested, current_result, current_element_index,
                   main_pc, invoked, wx_ok>>

\* the cancellation check after inference and result_processor.process
W_PostInfer(r) ==
    /\ worker[r].pc = "post_infer"
    /\ IF CancelCheck
       THEN worker' = [worker EXCEPT ![r].pc = "done"] /\ NoCall
       ELSE IF ProcessRaises(worker[r].elements)
       THEN /\ worker' = [worker EXCEPT ![r].pc = "done"]
            /\ CallOnMainThread(Callback(r, "error", None))
       ELSE /\ worker' = [worker EXCEPT
                  ![r].pc = "cache_put",
                  ![r].result = Process(worker[r].elements, worker[r].hash,
                                        "primary", worker[r].source)]
            /\ NoCall
    /\ UNCHANGED <<cacheVars, engineVars, issued, current_thread,
                   cancel_requested, current_result, current_element_index,
                   main_pc, wx_ok>>

\* a variant that caches whatever the status
ShouldCacheAlways(result) == TRUE

\* if result.status != RecognitionStatus.FAILURE:
ShouldCache(result) == result.status # "FAILURE"

\* step 5: cache_manager.put(screenshot, result) for a Result to be cached
W_CachePut(r) ==
    /\ worker[r].pc = "cache_put"
    /\ IF ShouldCache(worker[r].result)
       THEN /\ CachePut(worker[r].hash, worker[r].result)
            /\ worker' = [worker EXCEPT ![r] =
                  [Logged(worker[r], Event("put", Nobody, "ok",
                                           worker[r].result.elements))
                      EXCEPT !.pc = "finish"]]
       ELSE /\ worker' = [worker EXCEPT ![r].pc = "finish"]
            /\ UNCHANGED dbVars
    /\ UNCHANGED <<now, ticks, ttl_seconds, max_size, lastOp, pluginVars, issued,
                   current_thread, cancel_requested, current_result,
                   current_element_index, main_pc, main_queue, invoked, wx_ok>>

\* self._current_result = result ... self._call_on_main_thread(callback, result)
W_Finish(r) ==
    /\ worker[r].pc = "finish"
    /\ current_result' = worker[r].result
    /\ current_element_index' = 0
    /\ worker' = [worker EXCEPT ![r].pc = "done"]
    /\ CallOnMainThread(Callback(r, "success", worker[r].result))
    /\ UNCHANGED <<cacheVars, engineVars, issued, current_thread,
                   cancel_requested, main_pc, wx_ok>>

\* the default time-to-live passes
Tick ==
    /\ ticks < MaxExpiries
    /\ TickBy(CACHE_TTL)
    /\ UNCHANGED <<pluginVars, ctlVars>>

\* a cache with the default configuration, an engine with one backup and a
\* cloud adapter
Init ==
    /\ InitCacheVars
    /\ ttl_seconds = DefaultTtlSeconds
    /\ max_size = DefaultMaxSize
    /\ backup_count = 1
    /\ has_cloud = TRUE
    /\ enable_cloud \in BOOLEAN
    /\ IdleController
    /\ wx_ok \in BOOLEAN

Next ==
    \/ R_Begin
    \/ R_JoinReturn
    \/ CancelRecognition
    \/ MainDeliver
    \/ Tick
    \/ \E r \in 1..MaxRequests :
          \/ W_Capture(r)
          \/ W_CacheCheck(r)
          \/ W_PreInfer(r)
          \/ ProgressWake(r)
          \/ E_Primary(r)
          \/ E_Backup(r)
          \/ E_Consent(r)
          \/ E_Cloud(r)
          \/ W_PostInfer(r)
          \/ W_CachePut(r)
          \/ W_Finish(r)

Spec == Init /\ [][Next]_vars

(***************************************************************************)
(* Claims about the cache store                                            *)
(***************************************************************************)
ContentOf(els) == MapSeq(ElementContent, els)

\* C4: a lookup issued immediately after a successful put for the same
\* fingerprint is a hit and returns the elements that were put (same order,
\* type, text, bounding box, confidence, actionable), whatever the
\* configured ttl and whatever happened on the store before.
C4_LookupAfterPutReturnsPut ==
    (lastOp.op = "get" /\ lastOp.after_put) =>
        /\ lastOp.ret # None
        /\ ContentOf(lastOp.ret.elements) = ContentOf(lastOp.elements)

\* C5: an entry put with time-to-live T is never returned by a lookup once
\* more than T has elapsed since that put.
C5_ExpiredNeverReturned ==
    (lastOp.op = "get" /\ lastOp.ret # None) =>
        now - lastOp.put_at <= lastOp.put_ttl

\* C6: after any put on a store configured with maxEntries = N the store
\* holds at most N result entries.
C6_AtMostMaxEntries ==
    lastOp.op = "put" => Cardinality(recognition_results) <= max_size

\* The clock counts whole seconds, so two accesses within one second are
\* ordered only when the stored timestamps are identical (insertion order
\* then decides).
AccessTime(r) == r.last_accessed_at[2]

LeastRecentFirst(e, s) ==
    \/ AccessTime(e) < AccessTime(s)
    \/ /\ AccessTime(e) = AccessTime(s)
       /\ e.last_accessed_at = s.last_accessed_at => e.id < s.id

\* C7: whenever a put evicts, every evicted entry was accessed no more
\* recently than every surviving entry, ties broken by insertion order
\* (older first); an insert and a lookup hit both count as an access.
C7_EvictsLeastRecent ==
    [][next_result_id' # next_result_id =>
          \A e \in recognition_results \ recognition_results' :
             \A s \in recognition_results \cap recognition_results' :
                LeastRecentFirst(e, s)]_vars

(***************************************************************************)
(* Claims about the fallback chain, over the log of every run.             *)
(***************************************************************************)
EnginePcs == {"infer_primary", "infer_backup", "consent", "infer_cloud"}

IsInfer(e) == e.ev = "infer"

InferEvents(log) == SelectSeq(log, IsInfer)

\* the configured order: primary, the backups in list order, the cloud adapter
AdapterOrder ==
    <<Primary>> \o [i \in 1..backup_count |-> Backup(i)] \o <<Cloud>>

Prefix(log, n) == SubSeq(log, 1, n)

\* C8: the adapters are invoked strictly in the order primary, backups in
\* configured order, cloud; an adapter is invoked only after every earlier
\* one raised or timed out; each at most once per run; the run returns at
\* the first success; at most 1 + number of backups + 1 infer calls.
C8_StrictFallbackOrder ==
    \A r \in 1..MaxRequests :
        LET inf == InferEvents(worker[r].log)
        IN /\ Len(inf) <= 1 + backup_count + 1
           /\ \A i \in 1..Len(inf) :
                 /\ inf[i].who = AdapterOrder[i]
                 /\ \A j \in 1..(i - 1) : inf[j].who # inf[i].who
                 /\ i < Len(inf) => inf[i].kind # "ok"
           /\ (Len(inf) > 0 /\ inf[Len(inf)].kind = "ok") =>
                 worker[r].pc \notin EnginePcs

\* a run on an engine with two backups and a cloud adapter in which all four
\* adapters were tried and the last one succeeded
C8_Witness ==
    \E r \in 1..MaxRequests :
        LET inf == InferEvents(worker[r].log)
        IN /\ backup_count = 2
           /\ Len(inf) = 4
           /\ inf[2].who = Backup(1) /\ inf[2].kind = "failed"
           /\ inf[3].who = Backup(2) /\ inf[3].kind = "failed"
           /\ inf[4].who = Cloud /\ inf[4].kind = "ok"
           /\ worker[r].pc = "post_infer"

\* C9: the cloud adapter's infer is called only if cloud fallback is enabled,
\* a cloud adapter is configured and the user answered yes to the consent
\* request of that run; consent is requested only after the primary and every
\* backup have failed; a declined or failed consent request is never followed
\* by a cloud call in that run.
C9_CloudOnlyWithConsent ==
    \A r \in 1..MaxRequests :
        LET log == worker[r].log
        IN \A i \in 1..Len(log) :
              /\ (log[i].ev = "infer" /\ log[i].who = Cloud) =>
                    /\ enable_cloud /\ has_cloud
                    /\ \E j \in 1..(i - 1) :
                          log[j].ev = "consent" /\ log[j].kind = "yes"
              /\ log[i].ev = "consent" =>
                    LET before == InferEvents(Prefix(log, i - 1))
                    IN /\ Len(before) = 1 + backup_count
                       /\ \A j \in 1..Len(before) :
                             /\ before[j].kind # "ok"
                             /\ before[j].who # Cloud
              /\ (log[i].ev = "consent" /\ log[i].kind # "yes") =>
                    \A j \in (i + 1)..Len(log) :
                        ~(log[j].ev = "infer" /\ log[j].who = Cloud)

\* a run in which the user consented and the cloud adapter was then called
C9_Witness ==
    \E r \in 1..MaxRequests :
        LET log == worker[r].log
        IN /\ Len(log) >= 3
           /\ log[Len(log) - 1].ev = "consent"
           /\ log[Len(log) - 1].kind = "yes"
           /\ log[Len(log)].ev = "infer"
           /\ log[Len(log)].who = Cloud

TierTag(who) ==
    IF who = Primary THEN "LOCAL_GPU"
    ELSE IF who = Cloud THEN "CLOUD_API" ELSE "LOCAL_CPU"

\* C10: a run in which some adapter succeeded returns exactly the elements
\* that adapter returned, tagged LOCAL_GPU for the primary, LOCAL_CPU for a
\* backup and CLOUD_API for the cloud adapter; with adapters [A, B] and no
\* cloud adapter, A failing and B succeeding, the run returns B's elements
\* tagged LOCAL_CPU and no cloud adapter is invoked.
C10_ReturnsFirstSuccessTagged ==
    \A r \in 1..MaxRequests :
        LET inf == InferEvents(worker[r].log)
        IN (/\ Len(inf) > 0
            /\ worker[r].pc \notin EnginePcs
            /\ \E i \in 1..Len(inf) : inf[i].kind = "ok") =>
              LET first == CHOOSE i \in 1..Len(inf) :
                              /\ inf[i].kind = "ok"
                              /\ \A j \in 1..(i - 1) : inf[j].kind # "ok"
              IN /\ worker[r].elements = inf[first].elements
                 /\ worker[r].source = TierTag(inf[first].who)
                 /\ (~has_cloud) => \A i \in 1..Len(inf) : inf[i].who # Cloud

\* adapters [A, B], no cloud adapter: A failed, B returned elements
C10_Witness ==
    \E r \in 1..MaxRequests :
        LET inf == InferEvents(worker[r].log)
        IN /\ backup_count = 1 /\ ~has_cloud
           /\ Len(inf) = 2
           /\ inf[1].who = Primary /\ inf[1].kind # "ok"
           /\ inf[2].who = Backup(1) /\ inf[2].kind = "ok"
           /\ inf[2].elements = <<ElLow, ElOk>>
           /\ worker[r].pc = "post_infer"
           /\ worker[r].source = "LOCAL_CPU"
           /\ worker[r].elements = <<ElLow, ElOk>>

(***************************************************************************)
(* Claims about the controller.                                            *)
(***************************************************************************)
IsResultCallback(c) == c.kind \in {"success", "error"}

\* the callbacks of the requests that were invoked
ResultCallbacks == SelectSeq(invoked, IsResultCallback)

\* the calls made or posted so far
AllCalls == invoked \o main_queue

\* C1: when recognize_screen_async is called again while the worker of the
\* first request is still running, whatever its stage, exactly one callback
\* is invoked in total and it belongs to the second request; neither callback
\* of the first request is ever invoked.
C1_SupersededNeverCallsBack ==
    \A r \in 1..MaxRequests :
        worker[r].superseded =>
            /\ Len(ResultCallbacks) <= 1
            /\ \A i \in 1..Len(invoked) :
                  IsResultCallback(invoked[i]) => invoked[i].req # r

\* C2: in every reachable state at most one recognition worker is running,
\* also when the earlier worker stays in capture or in an adapter's infer for
\* longer than the join wait.
C2_AtMostOneWorker ==
    Cardinality({r \in 1..MaxRequests : Alive(r)}) <= 1

\* C3: for every request the cache lookup happens before any adapter is
\* invoked; when the lookup is a hit, no adapter's infer is called and no
\* cache put is made for that request, and the Result passed to the success
\* callback is the cached one.
C3_CacheHitShortCircuits ==
    \A r \in 1..MaxRequests :
        LET log == worker[r].log
        IN /\ \A i \in 1..Len(log) :
                 log[i].ev \in {"infer", "consent", "put"} =>
                     \E j \in 1..(i - 1) : log[j].ev = "lookup"
           /\ \A j \in 1..Len(log) :
                 (log[j].ev = "lookup" /\ log[j].kind = "hit") =>
                     /\ \A i \in 1..Len(log) :
                           log[i].ev \notin {"infer", "consent", "put"}
                     /\ worker[r].pc = "done"
                     /\ \E k \in 1..Len(AllCalls) :
                           AllCalls[k].req = r /\ AllCalls[k].kind = "success"
                     /\ \A k \in 1..Len(AllCalls) :
                           (AllCalls[k].req = r /\ IsResultCallback(AllCalls[k])) =>
                               /\ AllCalls[k].kind = "success"
                               /\ AllCalls[k].arg.screenshot_hash = worker[r].hash
                               /\ MapSeq(ElementToDict, AllCalls[k].arg.elements)
                                     = log[j].elements

\* a request whose lookup hit a stored, non-empty Result and whose success
\* callback has been invoked with it
C3_Witness ==
    \E r \in 1..MaxRequests :
        /\ Len(worker[r].log) = 1
        /\ worker[r].log[1].ev = "lookup"
        /\ worker[r].log[1].kind = "hit"
        /\ worker[r].log[1].elements # <<>>
        /\ \E k \in 1..Len(invoked) :
              /\ invoked[k].req = r
              /\ invoked[k].kind = "success"
              /\ invoked[k].arg.elements # <<>>

(***************************************************************************)
(* Claims about the tier of an exhausted run.                              *)
(***************************************************************************)
\* the members of InferenceSource; CACHE is the tier of a cached result
\* ("from cache")
InferenceSource == {"LOCAL_GPU", "LOCAL_CPU", "CLOUD_API", "CACHE"}

\* the run has returned and no adapter it tried succeeded
Exhausted(r) ==
    /\ worker[r].pc = "post_infer"
    /\ \A i \in 1..Len(worker[r].log) :
          worker[r].log[i].ev = "infer" => worker[r].log[i].kind # "ok"

\* C11: when every adapter attempt fails, the run returns an empty element
\* sequence tagged with a 'no result' tier that is distinct from the tier of
\* a genuine cache hit and from the GPU, CPU and cloud tiers.
C11_ExhaustedTierIsSentinel ==
    \A r \in 1..MaxRequests :
        Exhausted(r) =>
            /\ worker[r].elements = <<>>
            /\ worker[r].source \notin InferenceSource

(***************************************************************************)
(* The cursor over the current result: get_next_element,                   *)
(* get_previous_element, get_current_element, called on the main thread    *)
(* while no worker runs.  The index counts from 0 as in the code;          *)
(* elements[i] of the code is els[i + 1] here.  lastOp keeps the calls     *)
(* made so far: the operation, the index before and after, what was        *)
(* returned.                                                               *)
(***************************************************************************)
MaxCalls == 5
MaxElements == 3

CursorLists ==
    { <<>>, <<ElOk>>, <<ElOk, ElLow>>, <<ElOk, ElLow, ElPlain>> }

\* the results a finished recognition can leave as the current one
CursorResults ==
    {None} \cup
    {RecognitionResult("hA", els, "primary", "SUCCESS", "LOCAL_GPU", 0) :
        els \in CursorLists}

\* if not self._current_result or not self._current_result.elements
NoElements == current_result = None \/ current_result.elements = <<>>

\* a variant of the step forward that wraps around to the first element
NextIndexWrapping(i, n) == IF i + 1 >= n THEN 0 ELSE i + 1

\* the index after get_next_element
NextIndex(i, n) == IF i + 1 >= n THEN n - 1 ELSE i + 1

NextReturn(els, i) == IF i + 1 >= Len(els) THEN None ELSE els[(i + 1) + 1]

\* the index after get_previous_element
PreviousIndex(i) == IF i - 1 < 0 THEN 0 ELSE i - 1

PreviousReturn(els, i) == IF i - 1 < 0 THEN None ELSE els[(i - 1) + 1]

CurrentReturn(els, i) == IF i < 0 \/ i >= Len(els) THEN None ELSE els[i + 1]

History == IF lastOp.op = "cursor" THEN lastOp.history ELSE <<>>

CursorCall(op, after, ret) ==
    /\ Len(History) < MaxCalls
    /\ current_element_index' = after
    /\ lastOp' = [op |-> "cursor",
                  history |-> Append(History,
                      [op |-> op, before |-> current_element_index,
                       after |-> after, ret |-> ret])]
    /\ UNCHANGED <<now, ticks, ttl_seconds, max_size, dbVars, pluginVars,
                   worker, issued, current_thread, cancel_requested,
                   current_result, main_pc, main_queue, invoked, wx_ok>>

GetNextElement ==
    IF NoElements THEN CursorCall("next", current_element_index, None)
    ELSE CursorCall("next",
            NextIndex(current_element_index, Len(current_result.elements)),
            NextReturn(current_result.elements, current_element_index))

GetPreviousElement ==
    IF NoElements THEN CursorCall("previous", current_element_index, None)
    ELSE CursorCall("previous",
            PreviousIndex(current_element_index),
            PreviousReturn(current_result.elements, current_element_index))

GetCurrentElement ==
    IF NoElements THEN CursorCall("current", current_element_index, None)
    ELSE CursorCall("current", current_element_index,
            CurrentReturn(current_result.elements, current_element_index))

\* a recognition has finished and left its result, the cursor at 0
InitCursor ==
    /\ InitCacheVars
    /\ ttl_seconds = DefaultTtlSeconds
    /\ max_size = DefaultMaxSize
    /\ backup_count = 0 /\ has_cloud = FALSE /\ enable_cloud = FALSE
    /\ worker = [r \in 1..MaxRequests |-> IdleWorker]
    /\ issued = 0
    /\ current_thread = 0
    /\ cancel_requested = FALSE
    /\ current_result \in CursorResults
    /\ current_element_index = 0
    /\ main_pc = "idle"
    /\ main_queue = <<>>
    /\ invoked = <<>>
    /\ is_recognizing = FALSE
    /\ wx_ok = TRUE

NextCursor ==
    \/ GetNextElement
    \/ GetPreviousElement
    \/ GetCurrentElement

SpecCursor == InitCursor /\ [][NextCursor]_vars

CursorLen == IF NoElements THEN 0 ELSE Len(current_result.elements)

\* the first k calls were all get_next_element
OnlyNextUpTo(k) == \A j \in 1..k : History[j].op = "next"

\* C12: for a current Result with n >= 1 elements and any sequence of
\* next, previous and current calls the index stays within [0, n-1]; next at
\* n-1 returns none and leaves the index at n-1, previous at 0 returns none
\* and leaves the index at 0; from a fresh Result next returns elements
\* 1..n-1 in order and then none on every further call, and the previous
\* that follows an overshoot returns element n-2.
C12_CursorClamps ==
    LET n == CursorLen
        els == current_result.elements
    IN n >= 1 =>
        /\ current_element_index >= 0
        /\ current_element_index <= n - 1
        /\ \A k \in 1..Len(History) :
              LET c == History[k]
              IN /\ (c.op = "next" /\ c.before = n - 1) =>
                        c.ret = None /\ c.after = n - 1
                 /\ (c.op = "previous" /\ c.before = 0) =>
                        c.ret = None /\ c.after = 0
                 /\ (c.op = "next" /\ OnlyNextUpTo(k)) =>
                        c.ret = IF k <= n - 1 THEN els[k + 1] ELSE None
                 /\ (/\ c.op = "previous" /\ k > 1 /\ n >= 2
                     /\ History[k - 1].op = "next"
                     /\ History[k - 1].ret = None) =>
                        c.ret = els[(n - 2) + 1]

\* three elements: next, next, two overshoots, then previous returns the
\* second element
C12_Witness ==
    /\ CursorLen = 3
    /\ Len(History) = 5
    /\ OnlyNextUpTo(4)
    /\ History[2].ret = ElPlain
    /\ History[3].ret = None
    /\ History[4].ret = None
    /\ History[5].op = "previous"
    /\ History[5].ret = ElLow
    /\ current_element_index = 1


(***************************************************************************)
(* Cancellation.  The pipeline with a cancel_recognition after which       *)
(* recognize_screen_async is not called again; lastOp keeps the request    *)
(* that was current when cancel_recognition was called and the position    *)
(* of its worker at that moment.                                           *)
(***************************************************************************)
CancelCalled == lastOp.op = "cancel"

\* cancel_recognition
CancelAt ==
    /\ SetCancelFlag
    /\ lastOp' = [op |-> "cancel", req |-> current_thread,
                  at |-> worker[current_thread].pc]

\* the default time-to-live passes
TickCancel ==
    /\ ticks < MaxExpiries
    /\ now' = now + CACHE_TTL
    /\ ticks' = ticks + 1
    /\ UNCHANGED <<ttl_seconds, max_size, dbVars, lastOp, pluginVars, ctlVars>>

NextCancel ==
    \/ (~CancelCalled /\ R_Begin)
    \/ R_JoinReturn
    \/ CancelAt
    \/ MainDeliver
    \/ TickCancel
    \/ \E r \in 1..MaxRequests :
          \/ W_Capture(r)
          \/ W_CacheCheck(r)
          \/ W_PreInfer(r)
          \/ ProgressWake(r)
          \/ E_Primary(r)
          \/ E_Backup(r)
          \/ E_Consent(r)
          \/ E_Cloud(r)
          \/ W_PostInfer(r)
          \/ W_CachePut(r)
          \/ W_Finish(r)

SpecCancel == Init /\ [][NextCancel]_vars

\* the request cancel_recognition was called for, in the given positions
CancelledAt(r, pcs) == CancelCalled /\ lastOp.req = r /\ lastOp.at \in pcs

\* the worker of request r takes a step of the pipeline
WorkerStep(r) ==
    worker'[r].pc # worker[r].pc \/ worker'[r].log # worker[r].log

NoResultCallbackOf(r) ==
    \A k \in 1..Len(AllCalls) : IsResultCallback(AllCalls[k]) => AllCalls[k].req # r

\* C13: when cancel_recognition is called while the worker is in capture or
\* inside an adapter's inference and no new request follows, then once that
\* stage returns the worker stops at the next stage boundary: it invokes
\* neither callback, writes nothing to the cache and leaves the current
\* result and the cursor unchanged; the adapter call that was running is
\* not interrupted, it ends and is logged like any other.
C13_CancelStopsAtNextBoundary ==
    [][\A r \in 1..MaxRequests :
          (/\ CancelledAt(r, {"capture"} \cup EnginePcs)
           /\ WorkerStep(r)
           /\ worker'[r].hash # "")
          =>
          /\ worker'[r].pc \in EnginePcs \cup {"post_infer", "done"}
          /\ worker[r].pc \in {"capture", "post_infer"} => worker'[r].pc = "done"
          /\ worker[r].pc \in EnginePcs =>
                 /\ Len(worker'[r].log) = Len(worker[r].log) + 1
                 /\ worker'[r].log[Len(worker'[r].log)].ev \in {"infer", "consent"}
          /\ UNCHANGED <<dbVars, current_result, current_element_index>>
          /\ NoResultCallbackOf(r)'
      ]_vars

\* cancelled inside the primary adapter's inference; the call ended and was
\* logged, the worker has stopped without a callback
C13_Witness ==
    \E r \in 1..MaxRequests :
        /\ CancelledAt(r, {"infer_primary"})
        /\ worker[r].pc = "done"
        /\ \E i \in 1..Len(worker[r].log) :
              worker[r].log[i].ev = "infer" /\ worker[r].log[i].who = Primary
        /\ NoResultCallbackOf(r)
        /\ main_queue = <<>>


\* the positions of a worker in the stages Capturing, CacheCheck, Inferring,
\* Processing and Caching
NonTerminalPcs ==
    {"capture", "cache_check", "pre_infer", "post_infer", "cache_put", "finish"}
        \cup EnginePcs

\* C14: from every non-terminal stage of a request (capture, cache check,
\* inference, processing, caching) a cancel_recognition called while the
\* request is in that stage leads the request to Cancelled rather than Done:
\* no callback is delivered for it, and it takes no further pipeline step
\* once it has stopped.
C14_CancelLeadsToCancelled ==
    \A r \in 1..MaxRequests :
        CancelledAt(r, NonTerminalPcs) =>
            \A k \in 1..Len(invoked) :
                IsResultCallback(invoked[k]) => invoked[k].req # r


(***************************************************************************)
(* cleanup, called by GlobalPlugin.terminate on the main thread.           *)
(***************************************************************************)
\* self.cancel_recognition() and the call of join(timeout=2.0), or the end
\* of cleanup when no thread was ever started
C_Begin ==
    /\ main_pc = "idle"
    /\ cancel_requested' = (cancel_requested \/ Alive(current_thread))
    /\ main_pc' = IF current_thread # 0 THEN "cleanup_join" ELSE "cleaned"
    /\ UNCHANGED <<cacheVars, pluginVars, worker, issued, current_thread,
                   current_result, current_element_index, main_queue,
                   invoked, wx_ok>>

\* join(timeout=2.0) returns: the worker has ended, or the two seconds are
\* over while the worker is still running
C_JoinReturn ==
    /\ main_pc = "cleanup_join"
    /\ main_pc' = "cleaned"
    /\ UNCHANGED <<cacheVars, pluginVars, worker, issued, current_thread,
                   cancel_requested, current_result, current_element_index,
                   main_queue, invoked, wx_ok>>

NextCleanup ==
    \/ R_Begin
    \/ R_JoinReturn
    \/ CancelRecognition
    \/ MainDeliver
    \/ Tick
    \/ C_Begin
    \/ C_JoinReturn
    \/ \E r \in 1..MaxRequests :
          \/ W_Capture(r)
          \/ W_CacheCheck(r)
          \/ W_PreInfer(r)
          \/ ProgressWake(r)
          \/ E_Primary(r)
          \/ E_Backup(r)
          \/ E_Consent(r)
          \/ E_Cloud(r)
          \/ W_PostInfer(r)
          \/ W_CachePut(r)
          \/ W_Finish(r)

SpecCleanup == Init /\ [][NextCleanup]_vars

\* C15: when cleanup returns, no recognition worker is running, whatever
\* stage the worker was in when cleanup was called.
C15_NoWorkerAfterCleanup ==
    main_pc = "cleaned" => \A r \in 1..MaxRequests : ~Alive(r)


(***************************************************************************)
(* Claims about the progress message and the thread of the callbacks.      *)
(***************************************************************************)
\* the step posts the progress message of request r
EmitsProgress(r) ==
    /\ Len(main_queue') = Len(main_queue) + 1
    /\ main_queue'[Len(main_queue')].kind = "progress"
    /\ main_queue'[Len(main_queue')].req = r

\* C16: for each request the progress message is emitted at most once and
\* only while that request's own worker is still running (at the latest
\* until it ends); the timer of a request that has finished or was cancelled
\* emits nothing, also when the worker of a newer request is running at the
\* moment the timer fires.
C16_ProgressOnlyForOwnRunningWorker ==
    [][\A r \in 1..MaxRequests :
          EmitsProgress(r) =>
              /\ worker[r].progress # "notified"
              /\ Alive(r)
      ]_vars


\* C17: the success callback, the error callback and the progress message
\* are always executed on the main thread; no path, including the one taken
\* when wx.CallAfter fails, runs a callback on the worker thread.
C17_CallbacksOnMainThread ==
    \A k \in 1..Len(invoked) : invoked[k].on = "main"


(***************************************************************************)
(* Termination of a request.  The threads are scheduled by the operating   *)
(* system and every call of a worker returns or raises, so a worker that   *)
(* can take a step takes it; join has a timeout, and the main thread runs  *)
(* its event loop whenever it is not inside a call.                        *)
(***************************************************************************)
\* the steps of the worker of request r up to the end of inference, and its
\* steps after result_processor.process
WorkerAction(r) ==
    \/ W_Capture(r)
    \/ W_CacheCheck(r)
    \/ W_PreInfer(r)
    \/ E_Primary(r)
    \/ E_Backup(r)
    \/ E_Consent(r)
    \/ E_Cloud(r)
    \/ W_CachePut(r)
    \/ W_Finish(r)

\* W_PostInfer(r) is enabled exactly when the worker is at post_infer, and
\* each of its steps leaves post_infer: this is WF_vars(W_PostInfer(r))
ProcessReturns(r) == []<>(worker[r].pc # "post_infer")

Fairness ==
    /\ \A r \in 1..MaxRequests : WF_vars(WorkerAction(r)) /\ ProcessReturns(r)
    /\ WF_vars(R_JoinReturn)
    /\ WF_vars(MainDeliver)

\* the pipeline with at most one call of cancel_recognition, before, between
\* or after the requests; the requests fall within one time-to-live and each
\* run ends before the five seconds of its progress timer are over
NextLive ==
    \/ R_Begin
    \/ R_JoinReturn
    \/ (~CancelCalled /\ CancelAt)
    \/ MainDeliver
    \/ \E r \in 1..MaxRequests :
          \/ WorkerAction(r)
          \/ W_PostInfer(r)

SpecLive == Init /\ [][NextLive]_vars /\ Fairness

\* the request was cancelled: by cancel_recognition, or by a later
\* recognize_screen_async while its worker was running
WasCancelled(r) == worker[r].superseded \/ CancelledAt(r, NonTerminalPcs)

IsResultCallbackOf(r, c) == IsResultCallback(c) /\ c.req = r

\* the result callbacks of request r that were invoked
CallbacksOf(r) ==
    {k \in 1..Len(invoked) : IsResultCallbackOf(r, invoked[k])}

\* C18: every request that is not cancelled, and whose capture, cache and
\* adapter calls each return or raise, eventually invokes exactly one of the
\* success and error callbacks, exactly once: never both, never one of them
\* twice, never none.
C18_ExactlyOneCallback ==
    /\ [](\A r \in 1..MaxRequests :
             WasCancelled(r) \/ Cardinality(CallbacksOf(r)) <= 1)
    /\ \A r \in 1..MaxRequests :
          (worker[r].pc # "idle") ~>
              (WasCancelled(r) \/ Cardinality(CallbacksOf(r)) = 1)

\* a request that was never cancelled and whose one callback was invoked on
\* the main thread, after an inference
C18_Witness ==
    \E r \in 1..MaxRequests :
        /\ ~WasCancelled(r)
        /\ worker[r].pc = "done"
        /\ Cardinality(CallbacksOf(r)) = 1
        /\ \E i \in 1..Len(worker[r].log) : worker[r].log[i].ev = "infer"
        /\ \A k \in CallbacksOf(r) : invoked[k].on = "main"
        /\ main_queue = <<>>


\* infer_with_fallback of request r has returned and every adapter it tried
\* failed
AllAttemptsFailed(r) ==
    /\ worker[r].pc \in {"post_infer", "cache_put", "finish", "done"}
    /\ \E i \in 1..Len(worker[r].log) : worker[r].log[i].ev = "infer"
    /\ \A i \in 1..Len(worker[r].log) :
          worker[r].log[i].ev = "infer" => worker[r].log[i].kind # "ok"

\* C19: when every adapter attempt of a request fails, a callback invoked
\* for the request is its error callback; its success callback is not
\* invoked.
C19_ExhaustionReachesErrorCallback ==
    \A r \in 1..MaxRequests :
        AllAttemptsFailed(r) =>
            \A k \in 1..Len(invoked) :
                IsResultCallbackOf(r, invoked[k]) => invoked[k].kind = "error"


(***************************************************************************)
(* Claims about repeated puts for one fingerprint.                         *)
(***************************************************************************)
\* the stored entries for hash h
RowsOf(h) ==
    {r \in recognition_results :
        \E s \in screenshots : s.id = r.screenshot_id /\ s.sha256_hash = h}

\* the get that was just made hit, and returned the entry of the latest put
\* for its hash
ReturnedMostRecent ==
    (lastOp.op = "get" /\ lastOp.ret # None) =>
        \A q \in RowsOf(lastOp.hash) :
            (\A p \in RowsOf(lastOp.hash) : p.id <= q.id) =>
                lastOp.ret.elements = ResultFromDict(q.result_json).elements

\* C20: after several puts for the same hash, each put adds a new entry
\* without overwriting earlier ones, and every later lookup hit for that
\* hash returns the Result of the most recent put, also when two puts
\* happen within the same second.
C20_LookupReturnsMostRecentPut ==
    [][/\ lastOp'.op = "put" =>
             /\ \E r \in recognition_results' : r.id = next_result_id
             /\ \A r \in recognition_results' :
                   r.id # next_result_id => r \in recognition_results
       /\ ReturnedMostRecent'
      ]_vars


(***************************************************************************)
(* Claims about the effects of a lookup on the stored entries.             *)
(***************************************************************************)
\* the step is the lookup of request r
LookupStep(r) == worker[r].pc = "cache_check" /\ worker'[r].pc # "cache_check"

\* the entries that the step changed, added or removed
TouchedRows ==
    (recognition_results \ recognition_results')
        \cup (recognition_results' \ recognition_results)

\* the step served one hit from entry q: the count is one higher, the access
\* time is the current time, and nothing else has changed
ServedHitFrom(q) ==
    /\ q \in recognition_results
    /\ recognition_results' =
          (recognition_results \ {q}) \cup
              {[q EXCEPT !.hit_count = q.hit_count + 1,
                         !.last_accessed_at = IsoTimestamp(now)]}

\* C21: a lookup that returns a hit to its caller increments the hit count
\* of the returned entry by exactly one and sets its access time to the
\* current time; a lookup that returns a miss to its caller (unknown hash,
\* expired entry, read error) leaves the hit count and access time of every
\* entry unchanged.
C21_HitCountCountsHitsServed ==
    [][\A r \in 1..MaxRequests :
          LookupStep(r) =>
              IF worker'[r].result # None
              THEN \E q \in recognition_results : ServedHitFrom(q)
              ELSE TouchedRows = {}
      ]_vars


(***************************************************************************)
(* Claims about dependent rows.                                            *)
(***************************************************************************)
ScreenshotIds == {s.id : s \in screenshots}

ResultIds == {r.id : r \in recognition_results}

\* C22: deleting an entry removes its dependent rows: after _cleanup_expired
\* no expired screenshot remains, no result row refers to a deleted
\* screenshot and no element row refers to a deleted result; likewise after
\* an LRU eviction no element row of an evicted result remains.
C22_DeletesCascade ==
    /\ \A r \in recognition_results : r.screenshot_id \in ScreenshotIds
    /\ \A e \in ui_elements : e.result_id \in ResultIds


(***************************************************************************)
(* Claims about what the pipeline stores.                                  *)
(***************************************************************************)
\* the puts made by the requests so far
PutEvents ==
    UNION {{<<r, i>> : i \in {j \in 1..Len(worker[r].log) :
                                 worker[r].log[j].ev = "put"}} :
           r \in 1..MaxRequests}

\* C23: a cache entry is created only by a request that missed the cache
\* and whose processed Result has a status other than FAILURE; so no lookup
\* returns a Result with status FAILURE or without elements.
C23_OnlyUsableResultsCached ==
    /\ Cardinality(recognition_results) = Cardinality(PutEvents)
    /\ \A r \in 1..MaxRequests : \A i \in 1..Len(worker[r].log) :
          worker[r].log[i].ev = "put" =>
              /\ worker[r].result.status # "FAILURE"
              /\ \E j \in 1..(i - 1) :
                    /\ worker[r].log[j].ev = "lookup"
                    /\ worker[r].log[j].kind # "hit"
    /\ \A q \in recognition_results :
          /\ q.result_json.status # "FAILURE"
          /\ q.result_json.elements # <<>>
    /\ \A k \in 1..Len(AllCalls) :
          AllCalls[k].kind = "success" =>
              \/ AllCalls[k].arg.status # "FAILURE" /\ AllCalls[k].arg.elements # <<>>
              \/ \E i \in 1..Len(worker[AllCalls[k].req].log) :
                    worker[AllCalls[k].req].log[i].ev = "infer"

\* one request missed, inferred and stored a Result that is not a FAILURE;
\* the lookup of the other request has returned it to the success callback
C23_Witness ==
    \E r, q \in 1..MaxRequests :
        /\ \E i \in 1..Len(worker[r].log) :
              /\ worker[r].log[i].ev = "put"
              /\ \E j \in 1..(i - 1) : worker[r].log[j].kind = "miss"
        /\ worker[r].result.status # "FAILURE"
        /\ \E i \in 1..Len(worker[q].log) :
              worker[q].log[i].ev = "lookup" /\ worker[q].log[i].kind = "hit"
        /\ \E k \in 1..Len(invoked) :
              /\ invoked[k].req = q
              /\ invoked[k].kind = "success"
              /\ invoked[k].arg.status # "FAILURE"
              /\ invoked[k].arg.elements # <<>>


(***************************************************************************)
(* Storage errors.  A statement of lookup_cache or insert_cache, or a      *)
(* commit, raises (sqlite3.Error: disk full, I/O error, database locked);  *)
(* the statements executed before it keep their effect on the connection,  *)
(* which is never rolled back.                                             *)
(***************************************************************************)
\* insert_cache up to the statement that raises: the eviction, then n of
\* the statements INSERT OR IGNORE INTO screenshots, SELECT id together
\* with INSERT INTO recognition_results, and one INSERT INTO ui_elements
\* per element
InsertCachePartly(h, result_dict, ttl_minutes, max_results, n) ==
    LET kept == EvictBeforeInsert(recognition_results, max_results)
        shots == IF n >= 1
                 THEN InsertOrIgnoreScreenshot(screenshots, h, ttl_minutes)
                 ELSE screenshots
    IN /\ screenshots' = shots
       /\ next_screenshot_id' = IF shots = screenshots
                                THEN next_screenshot_id
                                ELSE next_screenshot_id + 1
       /\ recognition_results' =
             IF n >= 2
             THEN kept \cup
                  {NewResultRow((CHOOSE s \in shots : s.sha256_hash = h).id,
                                result_dict)}
             ELSE kept
       /\ next_result_id' = IF n >= 2 THEN next_result_id + 1
                            ELSE next_result_id
       /\ ui_elements' = ui_elements \cup
              {[result_id |-> next_result_id, pos |-> i] : i \in 1..(n - 2)}

\* the number of statements of insert_cache for a Result
InsertStatements(result) == 2 + Len(result.elements)

\* a variant of CacheManager that lets the exception through
StorageErrorPropagates == TRUE

\* CacheManager.get / put: except Exception as e: logger.exception(...)
StorageErrorReachesWorker == FALSE

\* cache_manager.get(screenshot) when lookup_cache or from_dict raises,
\* before or after the hit was recorded
W_CacheCheckRaises(r) ==
    /\ worker[r].pc = "cache_check"
    /\ \/ UNCHANGED dbVars
       \/ \E o \in GetOutcomes(worker[r].hash) :
             o.row # None /\ CacheGet(worker[r].hash, o)
    /\ IF StorageErrorReachesWorker
       THEN /\ worker' = [worker EXCEPT ![r].pc = "done"]
            /\ CallOnMainThread(Callback(r, "error", None))
       ELSE /\ worker' = [worker EXCEPT ![r] =
                   AfterLookup(Logged(worker[r],
                                      Event("lookup", Nobody, "error", <<>>)),
                               None)]
            /\ NoCall
    /\ UNCHANGED <<now, ticks, ttl_seconds, max_size, lastOp, engineVars,
                   issued, current_thread, cancel_requested, current_result,
                   current_element_index, main_pc, wx_ok>>

\* cache_manager.put(screenshot, result) when a statement of insert_cache
\* or its commit raises
W_CachePutRaises(r) ==
    /\ worker[r].pc = "cache_put"
    /\ ShouldCache(worker[r].result)
    /\ \E n \in 0..InsertStatements(worker[r].result) :
          InsertCachePartly(worker[r].hash, ResultToDict(worker[r].result),
                            TtlMinutes(ttl_seconds), max_size, n)
    /\ IF StorageErrorReachesWorker
       THEN /\ worker' = [worker EXCEPT ![r].pc = "done"]
            /\ CallOnMainThread(Callback(r, "error", None))
       ELSE /\ worker' = [worker EXCEPT ![r] =
                   [Logged(worker[r], Event("put", Nobody, "error", <<>>))
                       EXCEPT !.pc = "finish"]]
            /\ NoCall
    /\ UNCHANGED <<now, ticks, ttl_seconds, max_size, lastOp, engineVars,
                   issued, current_thread, cancel_requested, current_result,
                   current_element_index, main_pc, wx_ok>>

\* the pipeline on a store that can fail; the requests fall within one
\* time-to-live and each run ends before its progress timer is over
NextFaulty ==
    \/ R_Begin
    \/ R_JoinReturn
    \/ CancelRecognition
    \/ MainDeliver
    \/ \E r \in 1..MaxRequests :
          \/ WorkerAction(r)
          \/ W_PostInfer(r)
          \/ W_CacheCheckRaises(r)
          \/ W_CachePutRaises(r)

SpecFaulty == Init /\ [][NextFaulty]_vars

\* request r met a storage error in the given operation
StorageError(r, ev) ==
    \E i \in 1..Len(worker[r].log) :
        worker[r].log[i].ev = ev /\ worker[r].log[i].kind = "error"

CallsOf(r) == {k \in 1..Len(AllCalls) : IsResultCallbackOf(r, AllCalls[k])}

\* C24: storage errors never reach the caller: when the cache write of a
\* request raises, the request still delivers its Result to the success
\* callback and the error callback is not invoked; when the cache lookup
\* raises, the request treats it as a miss and goes on to inference.
C24_StorageErrorsSwallowed ==
    \A r \in 1..MaxRequests :
        /\ (StorageError(r, "put") /\ worker[r].pc = "done") =>
               /\ Cardinality(CallsOf(r)) = 1
               /\ \A k \in CallsOf(r) :
                     /\ AllCalls[k].kind = "success"
                     /\ AllCalls[k].arg = worker[r].result
        /\ StorageError(r, "lookup") =>
               /\ \A i \in 1..Len(worker[r].log) : worker[r].log[i].kind # "hit"
               /\ worker[r].log[1].kind = "error"
               /\ worker[r].pc \in {"pre_infer", "post_infer", "cache_put",
                                    "finish", "done"} \cup EnginePcs
               /\ \A k \in CallsOf(r) :
                     AllCalls[k].kind = "success" =>
                         \E i \in 1..Len(worker[r].log) :
                             worker[r].log[i].ev = "infer"
        /\ \A k \in CallsOf(r) :
              AllCalls[k].kind = "error" =>
                  \/ worker[r].hash = ""
                  \/ ProcessRaises(worker[r].elements)

\* a request whose lookup raised and whose put raised after the result row
\* was written; it inferred and its success callback was invoked
C24_Witness ==
    \E r \in 1..MaxRequests :
        /\ StorageError(r, "lookup")
        /\ StorageError(r, "put")
        /\ \E q \in recognition_results : q.id = 1
        /\ ui_elements = {}
        /\ \E k \in 1..Len(invoked) :
              /\ invoked[k].req = r
              /\ invoked[k].kind = "success"
              /\ invoked[k].arg.elements # <<>>


\* the step is a put of request r that raises
FailedPutStep(r) ==
    /\ worker[r].pc = "cache_put"
    /\ Len(worker'[r].log) = Len(worker[r].log) + 1
    /\ worker'[r].log[Len(worker'[r].log)].ev = "put"
    /\ worker'[r].log[Len(worker'[r].log)].kind = "error"

\* C29: a put that fails partway, after some of its rows were written, is a
\* no-op: the content of the store that lookups, counts and evictions see
\* is the same as before that put.
C29_FailedPutIsNoOp ==
    [][\A r \in 1..MaxRequests :
          FailedPutStep(r) =>
              UNCHANGED <<screenshots, recognition_results, ui_elements>>
      ]_vars


(***************************************************************************)
(* The calling thread.  recognize_screen_async, cancel_recognition and the *)
(* cursor operations run on the main thread; nothing is assumed about the  *)
(* progress of the workers, only that the timeout of join runs out.        *)
(***************************************************************************)
\* get_next_element or get_previous_element, called while requests may
\* be running
CallerCursor ==
    /\ main_pc = "idle"
    /\ ~NoElements
    /\ \E op \in {"next", "previous"} :
          current_element_index' =
             IF op = "next"
             THEN NextIndex(current_element_index,
                            Len(current_result.elements))
             ELSE PreviousIndex(current_element_index)
    /\ UNCHANGED <<cacheVars, pluginVars, worker, issued, current_thread,
                   cancel_requested, current_result, main_pc, main_queue,
                   invoked, wx_ok>>

NextCaller ==
    \/ R_Begin
    \/ R_JoinReturn
    \/ CancelRecognition
    \/ MainDeliver
    \/ CallerCursor
    \/ \E r \in 1..MaxRequests :
          \/ WorkerAction(r)
          \/ W_PostInfer(r)

SpecCaller == Init /\ [][NextCaller]_vars /\ WF_vars(R_JoinReturn)

\* a step of cancel_recognition or of a cursor operation
CancelOrCursorStep ==
    /\ main_pc = "idle"
    /\ worker' = worker
    /\ \/ cancel_requested' # cancel_requested
       \/ current_element_index' # current_element_index

\* C25: the calling thread is never blocked on pipeline work:
\* cancel_recognition and the cursor operations return at once, and
\* recognize_screen_async returns without capture, cache access or
\* inference having to finish, also when the worker of the previous request
\* never ends.
C25_CallerNeverBlockedOnPipeline ==
    /\ [][CancelOrCursorStep => main_pc' = "idle"]_vars
    /\ (main_pc = "joining") ~> (main_pc = "idle")

\* recognize_screen_async has returned for the second request while the
\* worker of the first is still inside the primary adapter's inference
C25_Witness ==
    /\ main_pc = "idle"
    /\ issued = 2
    /\ worker[1].superseded
    /\ worker[1].pc = "infer_primary"


(***************************************************************************)
(* ResultProcessor.process called directly, once, on any list of up to     *)
(* MaxElements raw elements: confidences below, at and above the           *)
(* threshold and out of range, boxes in three positions and a malformed    *)
(* one, actionable or not.                                                 *)
(***************************************************************************)
RawConfidences == {50, 70, 90, 109}

RawBoxes == {<<10, 10, 40, 40>>, <<50, 10, 90, 40>>, <<10, 50, 40, 90>>,
             <<40, 10, 10, 40>>}

RawElements ==
    {UIElement("button", "OK", bb, cf, act, TRUE) :
        bb \in RawBoxes, cf \in RawConfidences, act \in BOOLEAN}

RawLists ==
    UNION {[1..n -> RawElements] : n \in 0..MaxElements}

InitProcess ==
    /\ now = 0
    /\ ticks = 0
    /\ screenshots = {}
    /\ recognition_results = {}
    /\ ui_elements = {}
    /\ next_screenshot_id = 1
    /\ next_result_id = 1
    /\ lastOp \in {[op |-> "raw", elements |-> l] : l \in RawLists}
    /\ ttl_seconds = DefaultTtlSeconds
    /\ max_size = DefaultMaxSize
    /\ backup_count = 0 /\ has_cloud = FALSE /\ enable_cloud = FALSE
    /\ InitIdleController

\* result = self.result_processor.process(elements, ...)
ProcessCall ==
    /\ lastOp.op = "raw"
    /\ ~ProcessRaises(lastOp.elements)
    /\ lastOp' = [op |-> "process", elements |-> lastOp.elements,
                  result |-> Process(lastOp.elements, "hA", "primary", "GPU")]
    /\ UNCHANGED <<now, ticks, ttl_seconds, max_size, dbVars, pluginVars,
                   ctlVars>>

NextProcess == ProcessCall

SpecProcess == InitProcess /\ [][NextProcess]_vars

Processed == lastOp.op = "process"

\* the elements that survive filtering
Survivors == FilterInvalid(lastOp.elements)

RECURSIVE TotalPercent(_, _)
TotalPercent(els, n) ==
    IF n = 0 THEN 0 ELSE TotalPercent(els, n - 1) + els[n].confidence

\* the mean confidence of els is below the threshold
MeanBelowThreshold(els) ==
    TotalPercent(els, Len(els)) < ConfidenceThreshold * Len(els)

\* C26: process classifies the Result as FAILURE exactly when no element
\* survives filtering, otherwise as PARTIAL_SUCCESS exactly when no
\* surviving element is actionable or the mean confidence of the surviving
\* elements is below the threshold, otherwise as SUCCESS; a mean equal to
\* the threshold gives SUCCESS.
C26_StatusClassification ==
    Processed =>
        lastOp.result.status =
            IF Survivors = <<>> THEN "FAILURE"
            ELSE IF \/ \A i \in 1..Len(Survivors) : ~Survivors[i].actionable
                    \/ MeanBelowThreshold(Survivors)
                 THEN "PARTIAL_SUCCESS"
            ELSE "SUCCESS"

RawFields(e) ==
    [bbox |-> e.bbox, confidence |-> e.confidence, actionable |-> e.actionable]

\* the elements of els at position (x1, y1), as they came in
AtPosition(els, x1, y1) ==
    LET there == SelectSeq(els, LAMBDA e : e.bbox[1] = x1 /\ e.bbox[2] = y1)
    IN [i \in 1..Len(there) |-> RawFields(there[i])]

\* C27: the elements of a processed Result are in reading order: of two
\* consecutive elements the earlier has the smaller y1, or the same y1 and
\* a smaller or equal x1; elements with the same (y1, x1) keep the order
\* they had in the input.
C27_ReadingOrderStable ==
    Processed =>
        LET out == lastOp.result.elements
        IN /\ \A i \in 1..(Len(out) - 1) :
                 \/ out[i].bbox[2] < out[i + 1].bbox[2]
                 \/ /\ out[i].bbox[2] = out[i + 1].bbox[2]
                    /\ out[i].bbox[1] <= out[i + 1].bbox[1]
           /\ \A bb \in RawBoxes :
                 AtPosition(out, bb[1], bb[2])
                    = AtPosition(Survivors, bb[1], bb[2])

\* three elements survived; the input had the lower one first, and two
\* different elements at the same position
C27_Witness ==
    /\ Processed
    /\ Len(lastOp.result.elements) = 3
    /\ PositionBefore(Survivors[2], Survivors[1])
    /\ Survivors[2].bbox = Survivors[3].bbox
    /\ Survivors[2].confidence # Survivors[3].confidence


(***************************************************************************)
(* Startup: GlobalPlugin.__init__ builds the VisionEngine from the         *)
(* detected adapters and calls load_models; afterwards the recognize       *)
(* script asks the adapters in their order.  Which adapters fail to load   *)
(* is chosen at the start.  The state of the startup is kept in lastOp:    *)
(* pc, the backups gone through, the adapters with is_loaded set, the      *)
(* adapters that raised at inference for not being loaded.                 *)
(***************************************************************************)
LocalAdapters == {Primary} \cup {Backup(i) : i \in 1..backup_count}

Startup(pc, idx, failing, loaded, skipped) ==
    [op |-> "startup", pc |-> pc, idx |-> idx, failing |-> failing,
     loaded |-> loaded, skipped |-> skipped]

InitStartup ==
    /\ now = 0
    /\ ticks = 0
    /\ screenshots = {}
    /\ recognition_results = {}
    /\ ui_elements = {}
    /\ next_screenshot_id = 1
    /\ next_result_id = 1
    /\ ttl_seconds = DefaultTtlSeconds
    /\ max_size = DefaultMaxSize
    /\ backup_count \in 0..MaxBackups
    /\ has_cloud \in BOOLEAN
    /\ enable_cloud \in BOOLEAN
    /\ lastOp \in {Startup("load_primary", 0, f, {}, {}) :
                      f \in SUBSET LocalAdapters}
    /\ InitIdleController

StartupStep(next) ==
    /\ lastOp' = next
    /\ UNCHANGED <<now, ticks, ttl_seconds, max_size, dbVars, pluginVars,
                   ctlVars>>

\* load_models: self.primary_adapter.load(); a failure is raised as
\* RuntimeError, which __init__ catches: self.vision_engine = None
L_Primary ==
    /\ lastOp.op = "startup"
    /\ lastOp.pc = "load_primary"
    /\ StartupStep(IF Primary \in lastOp.failing
                   THEN [lastOp EXCEPT !.pc = "limited"]
                   ELSE [lastOp EXCEPT !.pc = "load_backups",
                                       !.loaded = @ \cup {Primary}])

\* load_models: for adapter in self.backup_adapters: adapter.load(), a
\* failure is logged
L_Backup ==
    /\ lastOp.op = "startup"
    /\ lastOp.pc = "load_backups"
    /\ lastOp.idx < backup_count
    /\ LET a == Backup(lastOp.idx + 1)
       IN StartupStep([lastOp EXCEPT
              !.idx = @ + 1,
              !.loaded = IF a \in lastOp.failing THEN @ ELSE @ \cup {a}])

\* load_models returns; the controller is built
L_Done ==
    /\ lastOp.op = "startup"
    /\ lastOp.pc = "load_backups"
    /\ lastOp.idx = backup_count
    /\ StartupStep([lastOp EXCEPT !.pc = "ready", !.idx = 0])

\* script_recognizeScreen: if not self.vision_engine: message, return
S_Refuse ==
    /\ lastOp.op = "startup"
    /\ lastOp.pc = "limited"
    /\ StartupStep([lastOp EXCEPT !.pc = "refused"])

\* infer_with_fallback asks the next local adapter: one that is not loaded
\* raises RuntimeError and the next is asked; a loaded one may return or
\* fail
S_Ask ==
    /\ lastOp.op = "startup"
    /\ lastOp.pc = "ready"
    /\ lastOp.idx <= backup_count
    /\ LET a == IF lastOp.idx = 0 THEN Primary ELSE Backup(lastOp.idx)
       IN IF a \notin lastOp.loaded
          THEN StartupStep([lastOp EXCEPT !.idx = @ + 1,
                                          !.skipped = @ \cup {a}])
          ELSE \E ok \in BOOLEAN :
                  StartupStep(IF ok THEN [lastOp EXCEPT !.pc = "served"]
                              ELSE [lastOp EXCEPT !.idx = @ + 1])

\* no local adapter returned
S_Exhausted ==
    /\ lastOp.op = "startup"
    /\ lastOp.pc = "ready"
    /\ lastOp.idx > backup_count
    /\ StartupStep([lastOp EXCEPT !.pc = "exhausted"])

NextStartup ==
    \/ L_Primary
    \/ L_Backup
    \/ L_Done
    \/ S_Refuse
    \/ S_Ask
    \/ S_Exhausted

SpecStartup == InitStartup /\ [][NextStartup]_vars

StartupOver ==
    lastOp.op = "startup" /\ lastOp.pc \notin {"load_primary", "load_backups"}

\* C28: at startup a load failure of any adapter, the primary included, is
\* not fatal: the other adapters are still loaded and the engine stays in
\* use, and at inference the adapter that failed to load is passed over for
\* the next one.
C28_LoadFailureNotFatal ==
    StartupOver =>
        /\ lastOp.pc \notin {"limited", "refused"}
        /\ lastOp.loaded = LocalAdapters \ lastOp.failing
        /\ lastOp.skipped \subseteq lastOp.failing


(***************************************************************************)
(* The shared connection.  CacheDatabase has one sqlite3 connection        *)
(* (check_same_thread=False, isolation_level='DEFERRED') used by every     *)
(* thread, and so one open transaction: statements of different threads    *)
(* interleave in it and any thread's commit makes all of them durable.     *)
(* Worker threads 1..MaxRequests run insert_cache statement by statement,  *)
(* once each, as the worker of a request does,                             *)
(* the main thread runs clear statement by statement, and a lookup that    *)
(* hits updates and commits.  lastOp keeps the position of each thread and *)
(* the durable content of the three tables.                                *)
(***************************************************************************)
Tables ==
    [screenshots |-> screenshots, recognition_results |-> recognition_results,
     ui_elements |-> ui_elements]

InitStore ==
    /\ now = 0
    /\ ticks = 0
    /\ screenshots = {}
    /\ recognition_results = {}
    /\ ui_elements = {}
    /\ next_screenshot_id = 1
    /\ next_result_id = 1
    /\ ttl_seconds = DefaultTtlSeconds
    /\ max_size \in MaxSizeChoices
    /\ backup_count = 0 /\ has_cloud = FALSE /\ enable_cloud = FALSE
    /\ lastOp = [op |-> "store", durable |-> Tables, clear |-> "idle",
                 put |-> [t \in 1..MaxRequests |->
                             [pc |-> "idle", hash |-> "", result |-> None,
                              rid |-> 0, k |-> 0]]]
    /\ InitIdleController

StoreStep(next) ==
    /\ lastOp.op = "store"
    /\ lastOp' = next
    /\ UNCHANGED <<now, ticks, ttl_seconds, max_size, pluginVars, ctlVars>>

\* insert_cache up to INSERT OR IGNORE INTO screenshots; _evict_lru commits
\* when it deletes
T_Begin(t, h) ==
    /\ lastOp.op = "store"
    /\ lastOp.put[t].pc = "idle"
    /\ LET kept == EvictBeforeInsert(recognition_results, max_size)
           shots == InsertOrIgnoreScreenshot(screenshots, h,
                                             TtlMinutes(ttl_seconds))
           started == [pc |-> "result", hash |-> h,
                       result |-> ResultToDict(
                           FreshResult(h, SamplePayload(next_result_id))),
                       rid |-> 0, k |-> 0]
       IN /\ recognition_results' = kept
          /\ screenshots' = shots
          /\ next_screenshot_id' = IF shots = screenshots
                                   THEN next_screenshot_id
                                   ELSE next_screenshot_id + 1
          /\ UNCHANGED <<ui_elements, next_result_id>>
          /\ StoreStep([lastOp EXCEPT
                 !.put[t] = started,
                 !.durable = IF kept = recognition_results THEN @
                             ELSE [Tables EXCEPT
                                      !.recognition_results = kept]])

\* SELECT id FROM screenshots ... .fetchone()['id'], which raises when the
\* row is gone, and INSERT INTO recognition_results
T_Result(t) ==
    /\ lastOp.op = "store"
    /\ lastOp.put[t].pc = "result"
    /\ LET found == {s \in screenshots : s.sha256_hash = lastOp.put[t].hash}
       IN IF found = {}
          THEN /\ UNCHANGED dbVars
               /\ StoreStep([lastOp EXCEPT !.put[t].pc = "done"])
          ELSE /\ recognition_results' = recognition_results \cup
                     {NewResultRow((CHOOSE s \in found : TRUE).id,
                                   lastOp.put[t].result)}
               /\ next_result_id' = next_result_id + 1
               /\ UNCHANGED <<screenshots, ui_elements, next_screenshot_id>>
               /\ StoreStep([lastOp EXCEPT !.put[t].pc = "elements",
                                           !.put[t].rid = next_result_id])

\* INSERT INTO ui_elements, one element of the loop
T_Element(t) ==
    /\ lastOp.op = "store"
    /\ lastOp.put[t].pc = "elements"
    /\ lastOp.put[t].k < Len(lastOp.put[t].result.elements)
    /\ ui_elements' = ui_elements \cup
           {[result_id |-> lastOp.put[t].rid, pos |-> lastOp.put[t].k + 1]}
    /\ UNCHANGED <<screenshots, recognition_results, next_screenshot_id,
                   next_result_id>>
    /\ StoreStep([lastOp EXCEPT !.put[t].k = @ + 1])

\* self.conn.commit() at the end of insert_cache
T_Commit(t) ==
    /\ lastOp.op = "store"
    /\ lastOp.put[t].pc = "elements"
    /\ lastOp.put[t].k = Len(lastOp.put[t].result.elements)
    /\ UNCHANGED dbVars
    /\ StoreStep([lastOp EXCEPT !.put[t].pc = "done", !.durable = Tables])

\* clear, on the main thread: the three DELETE statements, then commit
K_Clear ==
    /\ lastOp.op = "store"
    /\ CASE lastOp.clear = "idle" ->
              /\ ui_elements' = {}
              /\ UNCHANGED <<screenshots, recognition_results,
                             next_screenshot_id, next_result_id>>
              /\ StoreStep([lastOp EXCEPT !.clear = "results"])
         [] lastOp.clear = "results" ->
              /\ recognition_results' = {}
              /\ UNCHANGED <<screenshots, ui_elements, next_screenshot_id,
                             next_result_id>>
              /\ StoreStep([lastOp EXCEPT !.clear = "screenshots"])
         [] lastOp.clear = "screenshots" ->
              /\ screenshots' = {}
              /\ UNCHANGED <<recognition_results, ui_elements,
                             next_screenshot_id, next_result_id>>
              /\ StoreStep([lastOp EXCEPT !.clear = "commit"])
         [] OTHER ->
              /\ UNCHANGED dbVars
              /\ StoreStep([lastOp EXCEPT !.clear = "idle",
                                          !.durable = Tables])

\* lookup_cache that hits: UPDATE hit_count, last_accessed_at; commit
L_Hit(h) ==
    /\ lastOp.op = "store"
    /\ \E o \in GetOutcomes(h) :
          /\ o.row # None
          /\ o.row.hit_count < MaxHits
          /\ CacheGet(h, o)
          /\ StoreStep([lastOp EXCEPT !.durable =
                 [Tables EXCEPT !.recognition_results = recognition_results']])

NextStore ==
    \/ \E t \in 1..MaxRequests, h \in Hashes : T_Begin(t, h)
    \/ \E t \in 1..MaxRequests : T_Result(t)
    \/ \E t \in 1..MaxRequests : T_Element(t)
    \/ \E t \in 1..MaxRequests : T_Commit(t)
    \/ K_Clear
    \/ \E h \in Hashes : L_Hit(h)

SpecStore == InitStore /\ [][NextStore]_vars

\* C30: cache mutations are atomic with respect to each other, however a
\* worker's put interleaves with clear, with the hit-count update of a
\* lookup, with an eviction or with another worker's put: the store never
\* durably holds a result row without its screenshot row or with only a
\* part of its element rows, so no operation's commit makes the partial
\* writes of another durable.
C30_MutationsAtomic ==
    lastOp.op = "store" =>
        \A row \in lastOp.durable.recognition_results :
            /\ \E s \in lastOp.durable.screenshots : s.id = row.screenshot_id
            /\ {e.pos : e \in {x \in lastOp.durable.ui_elements :
                                  x.result_id = row.id}}
                  = 1..Len(row.result_json.elements)


(***************************************************************************)
(* Ownership of the current result and the cursor                          *)
(***************************************************************************)
\* this step is worker r writing self._current_result and
\* self._current_element_index: the cache-hit branch or the state update
WritesCurrent(r) ==
    /\ worker[r].pc \in {"cache_check", "finish"}
    /\ worker'[r].pc = "done"

\* C31: the current result and the cursor are only written by the worker
\* of the most recently issued request: the worker of a superseded request
\* never writes them once the newer request has been started.
C31_OnlyNewestWorkerWrites ==
    [][\A r \in 1..MaxRequests : WritesCurrent(r) => r = issued]_vars


(***************************************************************************)
(* The state update of a completing worker, statement by statement, next   *)
(* to the navigation calls of the main thread.  Nothing locks the two      *)
(* attributes, and "self._current_element_index += 1" reads and writes the *)
(* attribute in separate steps of the interpreter, between which the       *)
(* worker thread can run.  lastOp keeps the position of the worker (upd),  *)
(* the Result it delivers, the call in progress and the index it read, and *)
(* whether the caller has started a call since the update was complete.    *)
(***************************************************************************)
InitReplace ==
    /\ now = 0
    /\ ticks = 0
    /\ screenshots = {}
    /\ recognition_results = {}
    /\ ui_elements = {}
    /\ next_screenshot_id = 1
    /\ next_result_id = 1
    /\ ttl_seconds = DefaultTtlSeconds
    /\ max_size = DefaultMaxSize
    /\ backup_count = 0 /\ has_cloud = FALSE /\ enable_cloud = FALSE
    /\ worker = [r \in 1..MaxRequests |-> IdleWorker]
    /\ issued = 0
    /\ current_thread = 0
    /\ cancel_requested = FALSE
    /\ current_result \in CursorResults
    /\ current_element_index \in
          IF NoElements THEN {0} ELSE 0..(Len(current_result.elements) - 1)
    /\ main_pc = "idle"
    /\ main_queue = <<>>
    /\ invoked = <<>>
    /\ is_recognizing = FALSE
    /\ wx_ok = TRUE
    /\ lastOp \in {[op |-> "replace", upd |-> "result", new |-> res,
                    nav |-> "idle", read |-> 0, untouched |-> FALSE] :
                      res \in CursorResults \ {None}}

ReplaceStep(result, index, next) ==
    /\ lastOp.op = "replace"
    /\ current_result' = result
    /\ current_element_index' = index
    /\ lastOp' = next
    /\ UNCHANGED <<now, ticks, ttl_seconds, max_size, dbVars, pluginVars,
                   worker, issued, current_thread, cancel_requested, main_pc,
                   main_queue, invoked, wx_ok>>

\* self._current_result = result
U_Result ==
    /\ lastOp.upd = "result"
    /\ ReplaceStep(lastOp.new, current_element_index,
                   [lastOp EXCEPT !.upd = "index", !.untouched = TRUE])

\* self._current_element_index = 0
U_Index ==
    /\ lastOp.upd = "index"
    /\ ReplaceStep(current_result, 0, [lastOp EXCEPT !.upd = "done"])

\* get_next_element / get_previous_element up to the read of the index in
\* "self._current_element_index += 1" / "-= 1"
N_Begin(op) ==
    /\ lastOp.op = "replace"
    /\ lastOp.nav = "idle"
    /\ ~NoElements
    /\ ReplaceStep(current_result, current_element_index,
                   [lastOp EXCEPT !.nav = op, !.read = current_element_index,
                                  !.untouched = @ /\ lastOp.upd # "done"])

\* the write of the index, the clamp and the return
N_End ==
    /\ lastOp.op = "replace"
    /\ lastOp.nav # "idle"
    /\ ReplaceStep(current_result,
                   IF lastOp.nav = "next"
                   THEN NextIndex(lastOp.read, Len(current_result.elements))
                   ELSE PreviousIndex(lastOp.read),
                   [lastOp EXCEPT !.nav = "idle"])

NextReplace ==
    \/ U_Result
    \/ U_Index
    \/ \E op \in {"next", "previous"} : N_Begin(op)
    \/ N_End

SpecReplace == InitReplace /\ [][NextReplace]_vars

\* C32: the current result and the cursor index are replaced together: in
\* every state a navigation call can find, the index is valid for the
\* current result when that has elements; directly after a replacement the
\* index is 0 and get_current_element returns the first element of the new
\* Result; and a navigation call that interleaves with the replacement
\* does not leave the index away from element 0 of a Result the caller has
\* not navigated yet.
C32_ReplacedTogether ==
    (lastOp.op = "replace" /\ lastOp.nav = "idle" /\ ~NoElements) =>
        /\ current_element_index >= 0
        /\ current_element_index < Len(current_result.elements)
        /\ (lastOp.upd = "done" /\ lastOp.untouched) =>
              /\ current_element_index = 0
              /\ CurrentReturn(current_result.elements, current_element_index)
                    = current_result.elements[1]


\* what the model delivers of an element: type, text, box, confidence,
\* actionable flag
Delivered(e) ==
    [element_type |-> e.element_type, text |-> e.text, bbox |-> e.bbox,
     confidence |-> e.confidence, actionable |-> e.actionable]

\* the box is strictly ordered and the confidence lies in [0, 1]
WellFormed(e) ==
    /\ e.bbox[1] < e.bbox[3]
    /\ e.bbox[2] < e.bbox[4]
    /\ e.confidence >= 0
    /\ e.confidence <= 100

Occurrences(els, d) ==
    Cardinality({i \in 1..Len(els) : Delivered(els[i]) = d})

ArrivingIds == {"", "element_001", "element_002", "btn_ok"}

IdElements ==
    {[UIElement("button", "OK", bb, 90, TRUE, TRUE) EXCEPT !.id = id] :
        bb \in {<<10, 10, 40, 40>>, <<10, 50, 40, 90>>}, id \in ArrivingIds}

IdLists ==
    {l \in UNION {[1..n -> IdElements] : n \in 0..MaxElements} :
        \A i, j \in 1..Len(l) : (i # j /\ l[i].id # "") => l[i].id # l[j].id}

InitIds ==
    /\ now = 0
    /\ ticks = 0
    /\ screenshots = {}
    /\ recognition_results = {}
    /\ ui_elements = {}
    /\ next_screenshot_id = 1
    /\ next_result_id = 1
    /\ lastOp \in {[op |-> "raw", elements |-> l] : l \in IdLists}
    /\ ttl_seconds = DefaultTtlSeconds
    /\ max_size = DefaultMaxSize
    /\ backup_count = 0 /\ has_cloud = FALSE /\ enable_cloud = FALSE
    /\ InitIdleController

SpecIds == InitIds /\ [][NextProcess]_vars

\* C34: after process every element of the Result has a non-empty id, the
\* ids of one Result are pairwise distinct, an element that came with an id
\* has kept it, and an element that came without one has the synthetic id
\* of its position, counted from 1, in the sorted order, whatever the mix
\* of elements with and without an id.
C34_IdsPresentAndDistinct ==
    Processed =>
        LET out == lastOp.result.elements
            sorted == SortByPosition(lastOp.elements)
        IN /\ \A i \in 1..Len(out) : out[i].id # ""
           /\ \A i, j \in 1..Len(out) : i # j => out[i].id # out[j].id
           /\ \A i \in 1..Len(out) :
                 out[i].id = IF sorted[i].id # "" THEN sorted[i].id
                             ELSE ElementId(i)


\* C35: the configured cache.ttl_seconds decides expiry: an entry put at
\* time t0 under a configured time-to-live of T seconds, and neither
\* evicted nor cleared since, is a hit for every lookup at a time t with
\* t0 <= t < t0 + T, whether T is below 60, not a multiple of 60 or above
\* the built-in 300.
C35_ConfiguredTtlDecidesExpiry ==
    (lastOp.op = "get" /\ lastOp.ret = None) =>
        \A row \in RowsOf(lastOp.hash) :
            ~(now < row.created_at[2] + row.ttl)


\* C36: the backend name recorded in a Result that inference produced is
\* the name of the adapter whose infer call returned the elements, in line
\* with the recorded tier: when the primary fails and a backup or the cloud
\* adapter satisfies the request, the Result carries that adapter's name
\* and not the primary's.
C36_ResultNamesServingAdapter ==
    \A r \in 1..MaxRequests :
        worker[r].pc \in {"cache_put", "finish"} =>
            LET inf == InferEvents(worker[r].log)
            IN \A i \in 1..Len(inf) :
                  inf[i].kind = "ok" =>
                     /\ worker[r].result.model_name = inf[i].who[1]
                     /\ worker[r].result.source = TierTag(inf[i].who)


(***************************************************************************)
(* The engine that GlobalPlugin.__init__ builds from what                  *)
(* detect_all_adapters returns, and one run of infer_with_fallback on it.  *)
(* Here the adapters are told apart by what they are (uitars on the GPU,   *)
(* minicpm on the CPU, doubao in the cloud), not by the place they got in  *)
(* the engine.  lastOp keeps the engine's three places, the position of    *)
(* the run and the calls of infer made: which adapter, in which place,     *)
(* whether consent had been granted, and how the call ended.               *)
(***************************************************************************)
\* detect_all_adapters: UI-TARS, MiniCPM, Doubao, each when available
Detections ==
    {SelectSeq(<<"uitars", "minicpm", "doubao">>, LAMBDA a : a \in found) :
        found \in SUBSET {"uitars", "minicpm", "doubao"}}

\* primary = adapters[0]; backups = adapters[1:]; the adapter named
\* "Doubao Cloud API" becomes cloud_adapter and is removed from backups
BuiltEngine(adapters) ==
    [op |-> "engine",
     pc |-> IF adapters = <<>> THEN "limited" ELSE "primary",
     primary |-> IF adapters = <<>> THEN "" ELSE adapters[1],
     backups |-> IF adapters = <<>> THEN <<>>
                 ELSE SelectSeq(Tail(adapters), LAMBDA a : a # "doubao"),
     cloud |-> IF \E i \in 1..Len(adapters) : adapters[i] = "doubao"
               THEN "doubao" ELSE "",
     idx |-> 0, consent |-> FALSE, calls |-> <<>>]

\* doubao is detected only with enable_cloud_api set
InitDetect ==
    /\ now = 0
    /\ ticks = 0
    /\ screenshots = {}
    /\ recognition_results = {}
    /\ ui_elements = {}
    /\ next_screenshot_id = 1
    /\ next_result_id = 1
    /\ ttl_seconds = DefaultTtlSeconds
    /\ max_size = DefaultMaxSize
    /\ enable_cloud \in BOOLEAN
    /\ \E d \in Detections :
          /\ (\E i \in 1..Len(d) : d[i] = "doubao") => enable_cloud
          /\ lastOp = BuiltEngine(d)
          /\ backup_count = Len(BuiltEngine(d).backups)
          /\ has_cloud = (BuiltEngine(d).cloud # "")
    /\ InitIdleController

\* adapter a, in the given place of the engine, is asked: it returns or it
\* fails, and the run ends or goes to the next place
AskAdapter(a, place, o, next) ==
    /\ lastOp' = [lastOp EXCEPT
          !.calls = Append(@, [adapter |-> a, tier |-> SourceOf(place),
                               consent |-> lastOp.consent, outcome |-> o]),
          !.pc = IF Returned(o) THEN "returned" ELSE next,
          !.idx = IF place[1] = "backup" THEN @ + 1 ELSE @]
    /\ UNCHANGED <<now, ticks, ttl_seconds, max_size, dbVars, pluginVars,
                   ctlVars>>

AfterLocal(i) ==
    IF i < Len(lastOp.backups) THEN "backup"
    ELSE IF enable_cloud /\ lastOp.cloud # "" THEN "consent"
    ELSE "exhausted"

D_Primary ==
    /\ lastOp.op = "engine"
    /\ lastOp.pc = "primary"
    /\ \E o \in InferOutcomes :
          AskAdapter(lastOp.primary, Primary, o, AfterLocal(0))

D_Backup ==
    /\ lastOp.op = "engine"
    /\ lastOp.pc = "backup"
    /\ \E o \in InferOutcomes :
          AskAdapter(lastOp.backups[lastOp.idx + 1], Backup(lastOp.idx + 1),
                     o, AfterLocal(lastOp.idx + 1))

D_Consent ==
    /\ lastOp.op = "engine"
    /\ lastOp.pc = "consent"
    /\ \E a \in ConsentAnswers :
          lastOp' = [lastOp EXCEPT
                        !.consent = ConsentGranted(a),
                        !.pc = IF ConsentGranted(a) THEN "cloud"
                               ELSE "exhausted"]
    /\ UNCHANGED <<now, ticks, ttl_seconds, max_size, dbVars, pluginVars,
                   ctlVars>>

D_Cloud ==
    /\ lastOp.op = "engine"
    /\ lastOp.pc = "cloud"
    /\ \E o \in InferOutcomes : AskAdapter(lastOp.cloud, Cloud, o, "exhausted")

NextDetect ==
    \/ D_Primary
    \/ D_Backup
    \/ D_Consent
    \/ D_Cloud

SpecDetect == InitDetect /\ [][NextDetect]_vars

\* C37: in the engine built at startup the cloud adapter is neither the
\* primary nor a backup, whatever subset of the GPU, CPU and cloud adapters
\* was detected; so in any run the cloud adapter's infer is not called
\* without consent granted, is not tagged as a local tier, and is not
\* called twice.
C37_CloudOnlyInCloudPlace ==
    lastOp.op = "engine" =>
        /\ lastOp.primary # "doubao"
        /\ \A i \in 1..Len(lastOp.backups) : lastOp.backups[i] # "doubao"
        /\ \A i \in 1..Len(lastOp.calls) :
              lastOp.calls[i].adapter = "doubao" =>
                 /\ lastOp.calls[i].consent
                 /\ lastOp.calls[i].tier = "CLOUD_API"
                 /\ \A j \in 1..Len(lastOp.calls) :
                       lastOp.calls[j].adapter = "doubao" => j = i


\* this step ends request r otherwise than with a successful recognition:
\* cancelled, through the error callback, or with a FAILURE Result
EndsWithoutSuccess(r) ==
    /\ worker[r].pc \notin {"idle", "done"}
    /\ worker'[r].pc = "done"
    /\ \/ worker'[r].result = None
       \/ worker'[r].result.status = "FAILURE"

\* C38: the current result and the cursor are replaced only by a successful
\* recognition: a request that ends cancelled, through the error callback
\* or with a FAILURE Result of no elements leaves the Result delivered
\* before and the cursor index as they were, so that the earlier elements
\* can still be navigated.
C38_OnlySuccessReplaces ==
    [][\A r \in 1..MaxRequests :
          (EndsWithoutSuccess(r) /\ ~NoElements) =>
              UNCHANGED <<current_result, current_element_index>>]_vars


\* C39: fallback is triggered only by an adapter raising or timing out:
\* when an adapter's infer returns normally with no elements, the run ends
\* with that empty sequence tagged with that adapter's tier, no later
\* adapter is invoked, and the request yields a FAILURE Result that is not
\* cached.
C39_EmptyReturnEndsRun ==
    \A r \in 1..MaxRequests :
        LET inf == InferEvents(worker[r].log)
        IN \A i \in 1..Len(inf) :
              (inf[i].kind = "ok" /\ inf[i].elements = <<>>) =>
                 /\ i = Len(inf)
                 /\ worker[r].pc \notin EnginePcs
                 /\ worker[r].elements = <<>>
                 /\ worker[r].source = TierTag(inf[i].who)
                 /\ worker[r].result # None =>
                       /\ worker[r].result.status = "FAILURE"
                       /\ worker[r].result.elements = <<>>
                 /\ \A k \in 1..Len(worker[r].log) :
                       worker[r].log[k].ev # "put"

\* the primary failed, the backup returned no elements, the cloud adapter
\* was not asked; the request ended with a FAILURE Result and nothing was
\* stored
C39_Witness ==
    \E r \in 1..MaxRequests :
        LET inf == InferEvents(worker[r].log)
        IN /\ Len(inf) = 2
           /\ inf[1].who = Primary /\ inf[1].kind = "failed"
           /\ inf[2].who = Backup(1) /\ inf[2].kind = "ok"
           /\ inf[2].elements = <<>>
           /\ worker[r].pc = "done"
           /\ worker[r].result # None
           /\ worker[r].result.status = "FAILURE"
           /\ worker[r].source = "LOCAL_CPU"
           /\ recognition_results = {}


(***************************************************************************)
(* The plugin driven through its recognize gesture only.  The plugin is    *)
(* enabled and has an engine; capture_active_window and the adapters       *)
(* return or raise, the consent dialog is answered and ui.message returns. *)
(* A worker that has handed over its callback has only its return left:    *)
(* it counts as ended.                                                     *)
(***************************************************************************)
\* Thread.start() in recognize_screen_async starts the thread or raises
StartOutcomes == {"started", "raise"}

\* script_recognizeScreen
G_Recognize ==
    /\ main_pc = "idle"
    /\ IF is_recognizing
       THEN /\ lastOp' = [op |-> "gesture", accepted |-> FALSE,
                          said |-> "Recognition already in progress"]
            /\ UNCHANGED <<is_recognizing, worker, issued, current_thread,
                           cancel_requested, main_pc>>
       ELSE /\ issued < MaxRequests
            /\ IF Alive(current_thread)
               THEN /\ is_recognizing' = TRUE
                    /\ cancel_requested' = TRUE
                    /\ main_pc' = "joining"
                    /\ worker' = [worker EXCEPT
                                     ![current_thread].superseded = TRUE]
                    /\ lastOp' = [op |-> "gesture", accepted |-> TRUE,
                                  said |-> ""]
                    /\ UNCHANGED <<current_thread, issued>>
               ELSE \E s \in StartOutcomes :
                       IF s = "started"
                       THEN /\ is_recognizing' = TRUE
                            /\ cancel_requested' = FALSE
                            /\ StartWorker(issued + 1)
                            /\ lastOp' = [op |-> "gesture",
                                          accepted |-> TRUE,
                                          said |-> "Recognizing screen..."]
                            /\ UNCHANGED main_pc
                       ELSE /\ is_recognizing' = FALSE
                            /\ cancel_requested' = FALSE
                            /\ lastOp' = [op |-> "gesture",
                                          accepted |-> FALSE,
                                          said |-> "Recognition failed to start"]
                            /\ UNCHANGED <<worker, issued, current_thread,
                                           main_pc>>
    /\ UNCHANGED <<now, ticks, ttl_seconds, max_size, dbVars, engineVars,
                   current_result, current_element_index, main_queue,
                   invoked, wx_ok>>

NextGesture ==
    \/ G_Recognize
    \/ MainDeliver
    \/ \E r \in 1..MaxRequests :
          \/ WorkerAction(r)
          \/ ProgressWake(r)
          \/ W_PostInfer(r)

SpecGesture == Init /\ [][NextGesture]_vars /\ Fairness

\* the success or error callback of request r has run
CallbackRan(r) == \E k \in 1..Len(invoked) : invoked[k].req = r

GestureInvariant ==
    /\ main_pc = "idle"
    /\ ~cancel_requested
    /\ \A r \in 1..MaxRequests : ~worker[r].superseded
    /\ \A r1, r2 \in 1..MaxRequests :
          (Alive(r1) /\ Alive(r2)) => r1 = r2
    /\ is_recognizing <=> (issued > 0 /\ ~CallbackRan(issued))
    /\ \A r \in 1..MaxRequests : Alive(r) => (r = issued /\ is_recognizing)

\* C40: driven only through the recognize gesture, a gesture that arrives
\* while is_recognizing is set starts no worker and cancels nothing;
\* is_recognizing is set from the moment a gesture is accepted until the
\* success or error callback of that request runs; every accepted gesture
\* eventually clears the flag, and there are never two workers running.
C40_GestureFlagCleared ==
    /\ []GestureInvariant
    /\ is_recognizing ~> ~is_recognizing

\* the first request has ended and its callback has cleared the flag; a
\* second gesture was accepted, and a third one, arriving while the second
\* worker is capturing, was refused
C40_Witness ==
    /\ issued = 2
    /\ CallbackRan(1)
    /\ is_recognizing
    /\ worker[2].pc = "capture"
    /\ lastOp.op = "gesture"
    /\ ~lastOp.accepted
    /\ lastOp.said = "Recognition already in progress"
====
